---- MODULE Spec2Model ----
(***************************************************************************)
(* A model of django-resource: the query state compiler (query.py), the    *)
(* expression evaluator (expression.py) and the field selection and        *)
(* serialization engine (executor.py).                                     *)
(*                                                                         *)
(* Python values are tagged records, each type with its own payload field: *)
(*   dict  : a function from keys (texts) to values                        *)
(*   list  : a sequence of values                                          *)
(*   str   : a text, i.e. a sequence of atoms.  An atom is one character   *)
(*           where the code looks at characters (separators, signs,        *)
(*           digits) and otherwise a maximal run of letters.               *)
(*   bytes : a sequence of byte codes                                      *)
(*   int, bool, none                                                       *)
(*   error : a raised exception, named by its class                        *)
(***************************************************************************)
EXTENDS Integers, Sequences, FiniteSets, TLC

VARIABLES
    \* query compilation: Query.from_querystring against the builder
    selection,     \* the request: the keys (with their values) it is made of
    querystring,   \* the flat querystring handed to from_querystring
    compiled,      \* what from_querystring returned: a state, or the error raised
    calls,         \* the builder calls still to be made
    built,         \* the state of the Query the builder chain has reached
    \* the builder on Query objects
    queries,       \* the Query objects: the cell of each one's state, its executor
    cells,         \* the state mappings in memory
    lastCall,      \* the last builder call: receiver, returned object, arguments
    ncalls,        \* the number of builder calls made
    \* the expression evaluator
    evalExpr,      \* the expression handed to execute
    evalContext,   \* the context it is evaluated against
    evalValue,     \* what the call returned: a pair, a value, or the error raised
    evalOp,        \* the function called: execute or resolve_expression
    \* cursors and pagination
    pageState,     \* the query state get_next_page reads
    pageLevel,     \* the level whose page is asked for
    pageCarrier,   \* how a cursor is put into page.after: as bytes or as text
    pageOffsets,   \* the offsets of the cursors get_next_page has returned
    pageCursor,    \* what the last get_next_page returned
    trip,          \* a cursor round trip: the offset, the cursor, what was decoded
    \* field selection and serialization
    resources,     \* the resources of the space, by name
    execState,     \* the state of the query being executed
    execRequest,   \* the request it came with
    outcome        \* the call made on the executor: its arguments and result

queryVars == <<selection, querystring, compiled, calls, built>>
builderVars == <<queries, cells, lastCall, ncalls>>

exprVars == <<evalExpr, evalContext, evalValue, evalOp>>

cursorVars == <<pageState, pageLevel, pageCarrier, pageOffsets, pageCursor, trip>>

execVars == <<resources, execState, execRequest, outcome>>

vars == <<queryVars, builderVars, exprVars, cursorVars, execVars>>

(***************************************************************************)
(* Values                                                                  *)
(***************************************************************************)
VBool(b) == [t |-> "bool", b |-> b]
VInt(n) == [t |-> "int", n |-> n]
VStr(s) == [t |-> "str", s |-> s]
VDict(f) == [t |-> "dict", d |-> f]
VList(l) == [t |-> "list", l |-> l]
VNone == [t |-> "none"]
VObj(attrs) == [t |-> "obj", a |-> attrs]
VManager(related) == [t |-> "manager", m |-> related]
Err(name) == [t |-> "error", e |-> name]
Pending == [t |-> "pending"]

EmptyDict == VDict(<<>>)

IsErr(x) == x.t = "error"
IsDict(x) == x.t = "dict"

Keys(d) == DOMAIN d.d
Has(d, k) == k \in DOMAIN d.d
Put(d, k, x) == VDict([kk \in (DOMAIN d.d) \cup {k} |-> IF kk = k THEN x ELSE d.d[kk]])
Single(k, x) == Put(EmptyDict, k, x)

\* mapping.get(key, default)
DictGet(d, k, default) == IF Has(d, k) THEN d.d[k] ELSE default

\* Python truthiness of a value
Truthy(x) ==
    CASE x.t = "bool" -> x.b
      [] x.t = "int" -> x.n # 0
      [] x.t = "none" -> FALSE
      [] x.t = "str" -> x.s # <<>>
      [] x.t = "bytes" -> x.y # <<>>
      [] x.t = "list" -> x.l # <<>>
      [] x.t = "dict" -> DOMAIN x.d # {}
      [] OTHER -> TRUE

\* whether an exception sits anywhere in a value
RECURSIVE Raised(_)
Raised(x) ==
    CASE x.t = "error" -> TRUE
      [] x.t = "dict" -> \E k \in DOMAIN x.d : Raised(x.d[k])
      [] x.t = "list" -> \E i \in DOMAIN x.l : Raised(x.l[i])
      [] OTHER -> FALSE

(***************************************************************************)
(* Texts                                                                   *)
(***************************************************************************)
\* str.split(sep) for a one-atom separator
RECURSIVE SplitFrom(_, _, _)
SplitFrom(s, sep, cur) ==
    IF s = <<>> THEN <<cur>>
    ELSE IF Head(s) = sep THEN <<cur>> \o SplitFrom(Tail(s), sep, <<>>)
    ELSE SplitFrom(Tail(s), sep, Append(cur, Head(s)))

Split(s, sep) == SplitFrom(s, sep, <<>>)

\* sep.join(parts)
RECURSIVE Join(_, _)
Join(parts, sep) ==
    IF parts = <<>> THEN <<>>
    ELSE IF Len(parts) = 1 THEN parts[1]
    ELSE parts[1] \o sep \o Join(Tail(parts), sep)

StartsWith(s, a) == s # <<>> /\ Head(s) = a

Digits == {"0", "1", "2", "3", "4", "5", "6", "7", "8", "9"}

DigitVal(a) ==
    CASE a = "0" -> 0 [] a = "1" -> 1 [] a = "2" -> 2 [] a = "3" -> 3
      [] a = "4" -> 4 [] a = "5" -> 5 [] a = "6" -> 6 [] a = "7" -> 7
      [] a = "8" -> 8 [] a = "9" -> 9

RECURSIVE NatOf(_, _)
NatOf(s, acc) == IF s = <<>> THEN acc ELSE NatOf(Tail(s), 10 * acc + DigitVal(Head(s)))

AllDigits(s) == s # <<>> /\ \A i \in DOMAIN s : s[i] \in Digits

\* the texts int() accepts: an optional sign and decimal digits
IsIntText(s) ==
    \/ AllDigits(s)
    \/ s # <<>> /\ Head(s) \in {"-", "+"} /\ AllDigits(Tail(s))

IntOfText(s) ==
    IF Head(s) = "-" THEN 0 - NatOf(Tail(s), 0)
    ELSE IF Head(s) = "+" THEN NatOf(Tail(s), 0)
    ELSE NatOf(s, 0)

\* the texts float() accepts that int() does not: digits "." digits
IsFloatText(s) ==
    LET body == IF s # <<>> /\ Head(s) \in {"-", "+"} THEN Tail(s) ELSE s
        parts == Split(body, ".")
    IN  /\ Len(parts) = 2
        /\ parts[1] \o parts[2] # <<>>
        /\ \A i \in 1..2 : \A j \in DOMAIN parts[i] : parts[i][j] \in Digits

\* str.lower() on the letter runs the model uses
LowerAtom(a) ==
    CASE a \in {"True", "TRUE"} -> "true"
      [] a \in {"False", "FALSE"} -> "false"
      [] a \in {"Null", "NULL"} -> "null"
      [] OTHER -> a

Lower(s) == [i \in DOMAIN s |-> LowerAtom(s[i])]

VFloat(s) == [t |-> "float", f |-> s]

(***************************************************************************)
(* query.py: value coercion                                                *)
(***************************************************************************)
\* a plausible slip: float is tried before int
coerce_query_value_float_first(value, singletons) ==
    LET lower == Lower(value)
    IN  IF singletons /\ lower = <<"true">> THEN VBool(TRUE)
        ELSE IF singletons /\ lower = <<"false">> THEN VBool(FALSE)
        ELSE IF singletons /\ lower = <<"null">> THEN VNone
        ELSE IF IsIntText(value) \/ IsFloatText(value) THEN VFloat(value)
        ELSE VStr(value)

\* coerce_query_value(value, singletons=True)
coerce_query_value(value, singletons) ==
    LET lower == Lower(value)
    IN  IF singletons /\ lower = <<"true">> THEN VBool(TRUE)
        ELSE IF singletons /\ lower = <<"false">> THEN VBool(FALSE)
        ELSE IF singletons /\ lower = <<"null">> THEN VNone
        ELSE IF IsIntText(value) THEN VInt(IntOfText(value))
        ELSE IF IsFloatText(value) THEN VFloat(value)
        ELSE VStr(value)

\* values: the list of raw texts parse_qs gives for one key
coerce_query_values(values, singletons) ==
    LET coerced == [i \in DOMAIN values |-> coerce_query_value(values[i], singletons)]
    IN  IF Len(values) = 1 THEN coerced[1] ELSE VList(coerced)

(***************************************************************************)
(* utils.merge, features.py and boolean.py are not among the sources; they *)
(* are modelled from the specification.                                    *)
(***************************************************************************)
\* deep merge of the mapping source into dest; the merged dest
RECURSIVE merge(_, _)
merge(source, dest) ==
    IF ~IsDict(dest)
    THEN IF Keys(source) = {} THEN dest ELSE Err("AttributeError")
    ELSE VDict([k \in Keys(dest) \cup Keys(source) |->
            IF k \notin Keys(source) THEN dest.d[k]
            ELSE IF IsDict(source.d[k])
                 THEN merge(source.d[k], IF Has(dest, k) THEN dest.d[k] ELSE EmptyDict)
                 ELSE source.d[k]])

TAKE_FEATURE == <<"take">>
WHERE_FEATURE == <<"where">>
SORT_FEATURE == <<"sort">>
PAGE_FEATURE == <<"page">>
METHOD_FEATURE == <<"method">>

\* the feature a querystring key names: its leading word
get_feature(key) == <<Head(key)>>

\* the separator between a key's feature and its remaining segments
get_feature_separator(feature) == IF feature = PAGE_FEATURE THEN "." ELSE ":"

\* one take argument: its name and whether it is shown ("-name" hides)
TakeName(arg) == IF StartsWith(arg, "-") THEN Tail(arg) ELSE arg
TakeShow(arg) == ~StartsWith(arg, "-")

\* the mapping name -> shown of a sequence of take arguments (later wins)
TakeKwargs(args) ==
    VDict([name \in {TakeName(args[i]) : i \in DOMAIN args} |->
        LET last == CHOOSE i \in DOMAIN args :
                        /\ TakeName(args[i]) = name
                        /\ \A j \in DOMAIN args : TakeName(args[j]) = name => j <= i
        IN  VBool(TakeShow(args[last]))])

\* all comma-separated entries of the raw values of one key, in order
RECURSIVE CommaEntries(_)
CommaEntries(values) ==
    IF values = <<>> THEN <<>>
    ELSE Split(Head(values), ",") \o CommaEntries(Tail(values))

get_take_fields(values) == TakeKwargs(CommaEntries(values))

get_sort_fields(values) ==
    LET entries == CommaEntries(values)
    IN  VList([i \in DOMAIN entries |-> VStr(entries[i])])

BOOLEAN_OPERATORS == {<<"and">>, <<"or">>, <<"not">>}
SIMPLE_EXPRESSIONS == {<<"and">>, <<"or">>}

\* operands: the sequence of <<key, operand>> pairs of one level, in order
OperandKeys(operands) == {operands[i][1] : i \in DOMAIN operands}
OperandOf(operands, key) == operands[CHOOSE i \in DOMAIN operands : operands[i][1] = key][2]

\* an explicit expression that names one tag becomes that tag's condition
build_expression(expression, operands) ==
    IF expression \in OperandKeys(operands)
    THEN OperandOf(operands, expression)
    ELSE Err("QueryValidationError")

(***************************************************************************)
(* query.py: Query._update on a state                                      *)
(***************************************************************************)
\* the loop over kwargs.items() at the addressed substate
ApplyKwargs(sub, kwargs, mergeFlag) ==
    VDict([k \in Keys(sub) \cup Keys(kwargs) |->
        IF k \notin Keys(kwargs) THEN sub.d[k]
        ELSE IF mergeFlag /\ IsDict(kwargs.d[k]) /\ Has(sub, k) /\ Truthy(sub.d[k])
             THEN merge(kwargs.d[k], sub.d[k])
             ELSE kwargs.d[k]])

\* the walk down the level's parts, creating take nodes as needed
RECURSIVE UpdateAt(_, _, _, _)
UpdateAt(sub, parts, kwargs, mergeFlag) ==
    IF ~IsDict(sub) THEN Err("TypeError")
    ELSE IF parts = <<>> THEN ApplyKwargs(sub, kwargs, mergeFlag)
    ELSE LET withTake == IF Has(sub, TAKE_FEATURE) THEN sub ELSE Put(sub, TAKE_FEATURE, EmptyDict)
             fields == withTake.d[TAKE_FEATURE]
             part == Head(parts)
             new_sub == IF IsDict(fields) /\ Has(fields, part) /\ fields.d[part].t # "bool"
                        THEN fields.d[part]
                        ELSE EmptyDict
         IN  IF ~IsDict(fields) THEN Err("TypeError")
             ELSE Put(withTake, TAKE_FEATURE,
                      Put(fields, part, UpdateAt(new_sub, Tail(parts), kwargs, mergeFlag)))

\* the state _update leaves in the object it writes to; level <<>> is no level
Query_update(state, kwargs, level, mergeFlag) ==
    LET new == UpdateAt(state, IF level = <<>> THEN <<>> ELSE Split(level, "."),
                        kwargs, mergeFlag)
    IN  IF Raised(new) THEN Err("TypeError") ELSE new

Query_take(state, level, args) == Query_update(state, Single(TAKE_FEATURE, TakeKwargs(args)), level, TRUE)

Query_page(state, kwargs) == Query_update(state, Single(PAGE_FEATURE, kwargs), <<>>, TRUE)

Query_method(state, name) == Query_update(state, Single(METHOD_FEATURE, VStr(name)), <<>>, FALSE)


(***************************************************************************)
(* query.py: Query.from_querystring                                        *)
(***************************************************************************)
\* urllib's parse_qs: the keys in order of first appearance, each with the
\* list of its non-blank values
KeyOfPair(pair) == Split(pair, "=")[1]
ValueOfPair(pair) == Join(Tail(Split(pair, "=")), <<"=">>)

parse_qs(text) ==
    LET pairs == SelectSeq(Split(text, "&"),
                           LAMBDA p : Len(Split(p, "=")) > 1 /\ ValueOfPair(p) # <<>>)
        first == SelectSeq([i \in DOMAIN pairs |-> i],
                           LAMBDA i : \A j \in 1..(i - 1) : KeyOfPair(pairs[j]) # KeyOfPair(pairs[i]))
    IN  [n \in DOMAIN first |->
            [key |-> KeyOfPair(pairs[first[n]]),
             values |-> LET same == SelectSeq(pairs, LAMBDA p : KeyOfPair(p) = KeyOfPair(pairs[first[n]]))
                        IN  [m \in DOMAIN same |-> ValueOfPair(same[m])]]]

\* a plausible slip: the remaining key segments are dropped from the update
Query_build_update_flat(parts, key, value) == Single(key, value)

Query_build_update(parts, key, value) ==
    LET RECURSIVE Nest(_)
        Nest(ps) == IF Len(ps) = 1 THEN Single(ps[1], value)
                    ELSE Single(ps[1], Nest(Tail(ps)))
    IN  IF Len(parts) > 0 THEN Single(key, Nest(parts)) ELSE Single(key, value)

\* the conditions of one level: [expression, operands, error]
RECURSIVE WhereOperands(_, _, _)
WhereOperands(wheres, i, acc) ==
    IF acc.error \/ i > Len(wheres) THEN acc
    ELSE LET where == wheres[i]
             num_parts == Len(where.parts) + 1
             index == <<ToString(i - 1)>>
             operand == CASE num_parts = 2 ->
                                Single(<<"=">>, VList(<<VStr(where.parts[1]),
                                                        coerce_query_values(where.value, FALSE)>>))
                          [] num_parts \in {3, 4} ->
                                Single(where.parts[2], VList(<<VStr(where.parts[1]),
                                                               coerce_query_values(where.value, FALSE)>>))
                          [] OTHER -> VNone
             key == CASE num_parts \in {2, 3} -> index
                      [] num_parts = 4 -> where.parts[3]
                      [] OTHER -> <<>>
             failed == \/ num_parts = 1 /\ Len(where.value) > 1
                       \/ num_parts = 4 /\ key \in BOOLEAN_OPERATORS
                       \/ num_parts > 4
                       \/ num_parts \in {2, 3, 4} /\ key # <<>> /\ key \in OperandKeys(acc.operands)
         IN  WhereOperands(wheres, i + 1,
                [expression |-> IF num_parts = 1 /\ ~failed THEN where.value[1] ELSE acc.expression,
                 operands |-> IF num_parts \in {2, 3, 4} /\ key # <<>> /\ ~failed
                              THEN Append(acc.operands, <<key, operand>>)
                              ELSE acc.operands,
                 error |-> failed])

\* the where value _update_where assigns at one level, or the error it raises
WhereUpdate(wheres) ==
    LET got == WhereOperands(wheres, 1, [expression |-> <<"and">>, operands |-> <<>>, error |-> FALSE])
        values == [i \in DOMAIN got.operands |-> got.operands[i][2]]
    IN  IF got.error THEN Err("QueryValidationError")
        ELSE IF got.expression \notin SIMPLE_EXPRESSIONS
             THEN build_expression(got.expression, got.operands)
        ELSE IF Len(values) = 1 THEN VList(values)
        ELSE Single(got.expression, VList(values))

\* leveled: the sequence of [level, wheres] in order of first appearance
RECURSIVE Query_update_where(_, _)
Query_update_where(state, leveled) ==
    IF leveled = <<>> \/ IsErr(state) THEN state
    ELSE LET update == WhereUpdate(leveled[1].wheres)
         IN  IF IsErr(update) THEN update
             ELSE Query_update_where(
                    Query_update(state, Single(WHERE_FEATURE, update), leveled[1].level, FALSE),
                    Tail(leveled))

\* where[level].append(parts) on the defaultdict
AddWhere(leveled, level, entry) ==
    IF \E i \in DOMAIN leveled : leveled[i].level = level
    THEN [i \in DOMAIN leveled |->
            IF leveled[i].level = level
            THEN [level |-> level, wheres |-> Append(leveled[i].wheres, entry)]
            ELSE leveled[i]]
    ELSE Append(leveled, [level |-> level, wheres |-> <<entry>>])

RECURSIVE FromPairs(_, _, _)
FromPairs(pairs, state, where) ==
    IF IsErr(state) THEN state
    ELSE IF pairs = <<>>
         THEN IF where # <<>> THEN Query_update_where(state, where) ELSE state
    ELSE LET key == pairs[1].key
             value == pairs[1].values
             feature == get_feature(key)
             separator == get_feature_separator(feature)
             split == Split(key, separator)
             feature_part == split[1]
             level == IF \E i \in DOMAIN feature_part : feature_part[i] = "."
                      THEN Join(Tail(Split(feature_part, ".")), <<".">>)
                      ELSE <<>>
             parts == Tail(split)
             coerced == IF feature = TAKE_FEATURE THEN get_take_fields(value)
                        ELSE IF feature = SORT_FEATURE THEN get_sort_fields(value)
                        ELSE coerce_query_values(value, TRUE)
         IN  IF feature = WHERE_FEATURE
             THEN FromPairs(Tail(pairs), state,
                            AddWhere(where, level, [parts |-> parts, value |-> value]))
             ELSE FromPairs(Tail(pairs),
                            Query_update(state, Query_build_update(parts, feature, coerced),
                                         level, feature # SORT_FEATURE),
                            where)

\* the state of the Query from_querystring returns, or the error it raises
from_querystring(text) == FromPairs(parse_qs(text), EmptyDict, <<>>)


\* Query.get_state(level), which executor.py calls, is not among the sources:
\* the substate the level addresses, following take[part] for each part of
\* the level; an empty mapping where the level was never written
RECURSIVE StateAt(_, _)
StateAt(sub, parts) ==
    IF parts = <<>> THEN sub
    ELSE IF IsDict(sub) /\ Has(sub, TAKE_FEATURE) /\ IsDict(sub.d[TAKE_FEATURE])
            /\ Has(sub.d[TAKE_FEATURE], Head(parts))
            /\ IsDict(sub.d[TAKE_FEATURE].d[Head(parts)])
         THEN StateAt(sub.d[TAKE_FEATURE].d[Head(parts)], Tail(parts))
         ELSE EmptyDict

get_state(state, level) == StateAt(state, IF level = <<>> THEN <<>> ELSE Split(level, "."))

(***************************************************************************)
(* Requests: a request is a sequence of keys, each given as the querystring*)
(* text of the key and of its value, and as the builder call the tests     *)
(* (test_social_network) pair it with.                                     *)
(***************************************************************************)
MaxKeys == 3

NoCall == [op |-> "none"]

QueryIdle ==
    /\ selection = <<>> /\ querystring = <<>> /\ compiled = Pending
    /\ calls = <<>> /\ built = EmptyDict

BuilderIdle == queries = <<>> /\ cells = <<>> /\ lastCall = NoCall /\ ncalls = 0

ExprIdle == evalExpr = VNone /\ evalContext = EmptyDict /\ evalValue = Pending /\ evalOp = "none"

CursorIdle ==
    /\ pageState = EmptyDict /\ pageLevel = <<>> /\ pageCarrier = "none"
    /\ pageOffsets = <<>> /\ pageCursor = Pending /\ trip = Pending

ExecIdle ==
    /\ resources = <<>> /\ execState = EmptyDict /\ execRequest = VNone /\ outcome = NoCall

exceptQuery == <<builderVars, exprVars, cursorVars, execVars>>
exceptBuilder == <<queryVars, exprVars, cursorVars, execVars>>
exceptExpr == <<queryVars, builderVars, cursorVars, execVars>>
exceptCursor == <<queryVars, builderVars, exprVars, execVars>>
exceptExec == <<queryVars, builderVars, exprVars, cursorVars>>

IdleExceptQuery == BuilderIdle /\ ExprIdle /\ CursorIdle /\ ExecIdle
IdleExceptBuilder == QueryIdle /\ ExprIdle /\ CursorIdle /\ ExecIdle
IdleExceptExpr == QueryIdle /\ BuilderIdle /\ CursorIdle /\ ExecIdle
IdleExceptExec == QueryIdle /\ BuilderIdle /\ ExprIdle /\ CursorIdle
IdleExceptCursor == QueryIdle /\ BuilderIdle /\ ExprIdle /\ ExecIdle

Item(feature, key, value, level, args, size, name) ==
    [feature |-> feature, key |-> key, value |-> value, level |-> level,
     args |-> args, size |-> size, name |-> name]

TakeItem(level, args) ==
    Item("take", IF level = <<>> THEN TAKE_FEATURE ELSE TAKE_FEATURE \o <<".">> \o level,
         Join(args, <<",">>), level, args, 0, <<>>)

PageSizeItem(digits, n) ==
    Item("page", PAGE_FEATURE \o <<".", "size">>, digits, <<>>, <<>>, n, <<>>)

MethodItem(name) == Item("method", METHOD_FEATURE, name, <<>>, <<>>, 0, name)

EquivItems ==
    << TakeItem(<<>>, << <<"id">>, <<"name">> >>),
       TakeItem(<<>>, << <<"users">>, <<"id">> >>),
       TakeItem(<<"users">>, << <<"id">>, <<"name">> >>),
       TakeItem(<<"groups">>, << <<"id">> >>),
       TakeItem(<<"groups", ".", "users">>, << <<"-", "name">> >>),
       PageSizeItem(<<"1", "0">>, 10),
       PageSizeItem(<<"2", "5">>, 25),
       MethodItem(<<"get">>),
       MethodItem(<<"add">>) >>

\* the sequences of up to n items of a pool, no key used twice
Selections(pool, n) ==
    {s \in UNION {[1..k -> DOMAIN pool] : k \in 1..n} :
        \A i, j \in DOMAIN s : i # j => pool[s[i]].key # pool[s[j]].key}

Perms(n) == {p \in [1..n -> 1..n] : \A i, j \in 1..n : i # j => p[i] # p[j]}

\* the querystring text of a sequence of items: key=value joined by &
Render(items) == Join([i \in DOMAIN items |-> items[i].key \o <<"=">> \o items[i].value], <<"&">>)

(***************************************************************************)
(* SpecEquiv: one request compiled from its querystring, in some order of  *)
(* its keys, and built by the chain of builder calls                       *)
(***************************************************************************)
InitEquiv ==
    \E sel \in Selections(EquivItems, MaxKeys) :
      \E p \in Perms(Len(sel)) :
        /\ selection = [i \in DOMAIN sel |-> EquivItems[sel[i]]]
        /\ querystring = Render([i \in DOMAIN sel |-> EquivItems[sel[p[i]]]])
        /\ compiled = Pending
        /\ calls = [i \in DOMAIN sel |-> EquivItems[sel[i]]]
        /\ built = EmptyDict
        /\ IdleExceptQuery

\* Query.from_querystring(querystring)
Compile ==
    /\ compiled = Pending
    /\ compiled' = from_querystring(querystring)
    /\ UNCHANGED <<selection, querystring, calls, built, exceptQuery>>

\* query.take(*args) or query.take.<level>(*args)
CallTake ==
    /\ calls # <<>> /\ ~IsErr(built)
    /\ Head(calls).feature = "take"
    /\ built' = Query_take(built, Head(calls).level, Head(calls).args)
    /\ calls' = Tail(calls)
    /\ UNCHANGED <<selection, querystring, compiled, exceptQuery>>

\* query.page(size=n)
CallPage ==
    /\ calls # <<>> /\ ~IsErr(built)
    /\ Head(calls).feature = "page"
    /\ built' = Query_page(built, Single(<<"size">>, VInt(Head(calls).size)))
    /\ calls' = Tail(calls)
    /\ UNCHANGED <<selection, querystring, compiled, exceptQuery>>

\* query.method(name)
CallMethod ==
    /\ calls # <<>> /\ ~IsErr(built)
    /\ Head(calls).feature = "method"
    /\ built' = Query_method(built, Head(calls).name)
    /\ calls' = Tail(calls)
    /\ UNCHANGED <<selection, querystring, compiled, exceptQuery>>

NextEquiv == Compile \/ CallTake \/ CallPage \/ CallMethod

SpecEquiv == InitEquiv /\ [][NextEquiv]_vars

EquivDone == compiled # Pending /\ calls = <<>>

\* a take key names, as a field of its level, the next level segment of another key
NamesSubLevel(a, b) ==
    /\ a.feature = "take" /\ b.feature = "take"
    /\ \E i \in DOMAIN a.args :
         LET below == IF a.level = <<>> THEN TakeName(a.args[i])
                      ELSE a.level \o <<".">> \o TakeName(a.args[i])
         IN  \/ b.level = below
             \/ /\ Len(b.level) > Len(below)
                /\ SubSeq(b.level, 1, Len(below) + 1) = below \o <<".">>

Overlapping(items) == \E i, j \in DOMAIN items : i # j /\ NamesSubLevel(items[i], items[j])

\* C1 as stated: for any selection of fields, page size and method, and
\* whatever the order of the keys in the querystring, from_querystring
\* produces the state the equivalent chain of builder calls produces.
C1_AnyOrder == EquivDone => compiled = built

\* C1 as amended: from_querystring produces the state of the builder chain
\* made in the order of the keys; and it does so whatever the order of the
\* keys when no take key names, as a field, a sub-level of another key.
C1_Equivalence ==
    EquivDone /\ (querystring = Render(selection) \/ ~Overlapping(selection))
        => compiled = built

\* a permuted querystring with leveled keys has been compiled and the chain built
C1_Witness ==
    /\ EquivDone
    /\ querystring # Render(selection)
    /\ ~Overlapping(selection)
    /\ \E i \in DOMAIN selection : selection[i].level # <<>>
    /\ \E i \in DOMAIN selection : selection[i].feature = "page"
    /\ compiled = built /\ IsDict(compiled)


(***************************************************************************)
(* SpecWhere: requests made of where keys only                             *)
(***************************************************************************)
MaxWheres == 3

\* a where key of segs segments (the value included): where[.level]:field[:op[:tag]]
WhereItem(level, field, op, tag, segs, value, expected) ==
    [feature |-> "where",
     key |-> (IF level = <<>> THEN WHERE_FEATURE ELSE WHERE_FEATURE \o <<".">> \o level)
             \o <<":">> \o field
             \o (IF segs >= 3 THEN <<":">> \o op ELSE <<>>)
             \o (IF segs >= 4 THEN <<":">> \o tag ELSE <<>>),
     value |-> value, level |-> level, field |-> field, tag |-> tag, segs |-> segs,
     op |-> IF segs >= 3 THEN op ELSE <<"=">>, expected |-> expected]

WhereItems ==
    << WhereItem(<<>>, <<"name">>, <<>>, <<>>, 2, <<"Joe">>, VStr(<<"Joe">>)),
       WhereItem(<<>>, <<"name">>, <<"contains">>, <<>>, 3, <<"Jo">>, VStr(<<"Jo">>)),
       WhereItem(<<>>, <<"age">>, <<"gt">>, <<"a">>, 4, <<"3">>, VInt(3)),
       WhereItem(<<>>, <<"age">>, <<"lt">>, <<"a">>, 4, <<"5">>, VInt(5)),
       WhereItem(<<>>, <<"age">>, <<"lt">>, <<"0">>, 4, <<"7">>, VInt(7)),
       WhereItem(<<>>, <<"age">>, <<"lt">>, <<"1">>, 4, <<"9">>, VInt(9)),
       WhereItem(<<>>, <<"age">>, <<"lt">>, <<"and">>, 4, <<"5">>, VInt(5)),
       WhereItem(<<>>, <<"age">>, <<"lt">>, <<>>, 4, <<"8">>, VInt(8)),
       WhereItem(<<"users">>, <<"age">>, <<"gt">>, <<"a">>, 4, <<"3">>, VInt(3)),
       WhereItem(<<"users">>, <<"name">>, <<>>, <<>>, 2, <<"Joe">>, VStr(<<"Joe">>)) >>

InitWhere ==
    \E sel \in Selections(WhereItems, MaxWheres) :
        /\ selection = [i \in DOMAIN sel |-> WhereItems[sel[i]]]
        /\ querystring = Render([i \in DOMAIN sel |-> WhereItems[sel[i]]])
        /\ compiled = Pending
        /\ calls = <<>>
        /\ built = EmptyDict
        /\ IdleExceptQuery

\* Query.from_querystring(querystring) on a request of where keys
CompileWhere ==
    /\ compiled = Pending
    /\ compiled' = from_querystring(querystring)
    /\ UNCHANGED <<selection, querystring, calls, built, exceptQuery>>

NextWhere == CompileWhere

SpecWhere == InitWhere /\ [][NextWhere]_vars

\* the where keys of the request given at a level, in querystring order
KeysAt(level) == SelectSeq(selection, LAMBDA item : item.level = level)

\* the condition {operator: [field, value]} a where key stands for
Condition(item) == Single(item.op, VList(<<VStr(item.field), item.expected>>))

WhereLevels == {selection[i].level : i \in DOMAIN selection}

\* C2: without an explicit boolean expression, each where key compiles to
\* {operator: [field, value]}; a level with exactly one condition has that
\* condition itself as its where, a level with several has
\* {"and": [conditions]} in querystring order.
C2_WhereAssembly ==
    IsDict(compiled) =>
        \A level \in WhereLevels :
            LET keys == KeysAt(level)
                conditions == [i \in DOMAIN keys |-> Condition(keys[i])]
                sub == get_state(compiled, level)
            IN  /\ Has(sub, WHERE_FEATURE)
                /\ sub.d[WHERE_FEATURE] =
                     IF Len(keys) = 1 THEN conditions[1]
                     ELSE Single(<<"and">>, VList(conditions))

Tagged(item) == item.segs = 4

\* C3: compiling where keys fails with QueryValidationError exactly when a
\* tagged condition uses a reserved boolean-operator name as its tag or the
\* tag of another tagged condition of its level; an untagged condition
\* never conflicts with a tag.
C3_TagUniqueness ==
    compiled # Pending =>
        ((compiled = Err("QueryValidationError")) <=>
            \/ \E i \in DOMAIN selection :
                 Tagged(selection[i]) /\ selection[i].tag \in BOOLEAN_OPERATORS
            \/ \E i, j \in DOMAIN selection :
                 /\ i # j /\ Tagged(selection[i]) /\ Tagged(selection[j])
                 /\ selection[i].level = selection[j].level
                 /\ selection[i].tag = selection[j].tag)


\* the conditions a compiled where holds: those of the list, or of the
\* implicit conjunction
ConditionsOf(sub) ==
    IF ~Has(sub, WHERE_FEATURE) THEN <<>>
    ELSE IF sub.d[WHERE_FEATURE].t = "list" THEN sub.d[WHERE_FEATURE].l
    ELSE IF IsDict(sub.d[WHERE_FEATURE]) /\ Keys(sub.d[WHERE_FEATURE]) = {<<"and">>}
              /\ sub.d[WHERE_FEATURE].d[<<"and">>].t = "list"
    THEN sub.d[WHERE_FEATURE].d[<<"and">>].l
    ELSE <<sub.d[WHERE_FEATURE]>>

\* how often a condition occurs in a sequence of conditions
Occurrences(conditions, condition) ==
    Cardinality({i \in DOMAIN conditions : conditions[i] = condition})

\* C26: when from_querystring succeeds on where keys that all name a field,
\* the where of each level holds the condition of each key given at that
\* level, once for each such key and nothing else, whatever the tag (an
\* empty one too); and a level no key was given at has no where.
C26_NoConditionDropped ==
    IsDict(compiled) =>
        /\ \A level \in WhereLevels :
              LET keys == KeysAt(level)
                  given == [i \in DOMAIN keys |-> Condition(keys[i])]
                  held == ConditionsOf(get_state(compiled, level))
              IN  /\ Len(held) = Len(given)
                  /\ \A i \in DOMAIN given :
                       Occurrences(held, given[i]) = Occurrences(given, given[i])
        /\ \A level \in {<<>>, <<"users">>} \ WhereLevels :
              ~Has(get_state(compiled, level), WHERE_FEATURE)

(***************************************************************************)
(* SpecCoerce: one key with one raw value compiled by from_querystring     *)
(***************************************************************************)
\* a raw value text, what the coercion rule makes of it, and what is left
\* of the rule without the singletons true, false and null
RawValue(text, coerced, plain) == [text |-> text, coerced |-> coerced, plain |-> plain]

RawValues ==
    { RawValue(<<"true">>, VBool(TRUE), VStr(<<"true">>)),
      RawValue(<<"TRUE">>, VBool(TRUE), VStr(<<"TRUE">>)),
      RawValue(<<"True">>, VBool(TRUE), VStr(<<"True">>)),
      RawValue(<<"false">>, VBool(FALSE), VStr(<<"false">>)),
      RawValue(<<"False">>, VBool(FALSE), VStr(<<"False">>)),
      RawValue(<<"null">>, VNone, VStr(<<"null">>)),
      RawValue(<<"NULL">>, VNone, VStr(<<"NULL">>)),
      RawValue(<<"3">>, VInt(3), VInt(3)),
      RawValue(<<"1", "0">>, VInt(10), VInt(10)),
      RawValue(<<"-", "7">>, VInt(0 - 7), VInt(0 - 7)),
      RawValue(<<"0">>, VInt(0), VInt(0)),
      RawValue(<<"1", ".", "5">>, VFloat(<<"1", ".", "5">>), VFloat(<<"1", ".", "5">>)),
      RawValue(<<"-", "0", ".", "2">>, VFloat(<<"-", "0", ".", "2">>), VFloat(<<"-", "0", ".", "2">>)),
      RawValue(<<"3", ".">>, VFloat(<<"3", ".">>), VFloat(<<"3", ".">>)),
      RawValue(<<"Joe">>, VStr(<<"Joe">>), VStr(<<"Joe">>)),
      RawValue(<<"3", "a">>, VStr(<<"3", "a">>), VStr(<<"3", "a">>)),
      RawValue(<<"1", ".", "5", ".", "2">>, VStr(<<"1", ".", "5", ".", "2">>),
               VStr(<<"1", ".", "5", ".", "2">>)),
      RawValue(<<"truely">>, VStr(<<"truely">>), VStr(<<"truely">>)) }

\* a key of the querystring: its text, its feature, its level, and where
\* its value is found in the compiled state of the level
ValueKey(key, feature, level, path) ==
    [key |-> key, feature |-> feature, level |-> level, path |-> path]

ValueKeys ==
    { ValueKey(<<"page", ".", "size">>, PAGE_FEATURE, <<>>, <<PAGE_FEATURE, <<"size">> >>),
      ValueKey(<<"page", ".", "after">>, PAGE_FEATURE, <<>>, <<PAGE_FEATURE, <<"after">> >>),
      ValueKey(<<"method">>, METHOD_FEATURE, <<>>, <<METHOD_FEATURE>>),
      ValueKey(<<"record">>, <<"record">>, <<>>, << <<"record">> >>),
      ValueKey(<<"inspect", ":", "resource">>, <<"inspect">>, <<>>, << <<"inspect">>, <<"resource">> >>),
      ValueKey(<<"group", ".", "users", ":", "by">>, <<"group">>, <<"users">>, << <<"group">>, <<"by">> >>),
      ValueKey(<<"where", ":", "name">>, WHERE_FEATURE, <<>>, << <<"=">> >>),
      ValueKey(<<"where", ":", "age", ":", "gt">>, WHERE_FEATURE, <<>>, << <<"gt">> >>),
      ValueKey(<<"where", ".", "users", ":", "age", ":", "lt", ":", "a">>, WHERE_FEATURE,
               <<"users">>, << <<"lt">> >>) }

InitCoerce ==
    \E k \in ValueKeys, v \in RawValues :
        /\ selection = << [key |-> k.key, value |-> v.text, feature |-> k.feature,
                           level |-> k.level, path |-> k.path,
                           coerced |-> v.coerced, plain |-> v.plain] >>
        /\ querystring = k.key \o <<"=">> \o v.text
        /\ compiled = Pending
        /\ calls = <<>>
        /\ built = EmptyDict
        /\ IdleExceptQuery

\* Query.from_querystring(querystring) on a request of one key
CompileValue ==
    /\ compiled = Pending
    /\ compiled' = from_querystring(querystring)
    /\ UNCHANGED <<selection, querystring, calls, built, exceptQuery>>

NextCoerce == CompileValue

SpecCoerce == InitCoerce /\ [][NextCoerce]_vars

\* the mapping at the end of a path of keys
RECURSIVE Descend(_, _)
Descend(x, path) ==
    IF path = <<>> THEN x
    ELSE IF IsDict(x) /\ Has(x, Head(path)) THEN Descend(x.d[Head(path)], Tail(path))
    ELSE Err("KeyError")

\* the only condition of a where: the condition itself, or the list of one
OnlyCondition(where) == IF where.t = "list" THEN where.l[1] ELSE where

\* the value the compiled state holds for the key of the request
StoredValue ==
    LET item == selection[1]
        sub == get_state(compiled, item.level)
    IN  IF item.feature = WHERE_FEATURE
        THEN Descend(OnlyCondition(sub.d[WHERE_FEATURE]), item.path).l[2]
        ELSE Descend(sub, item.path)

\* C14 as claimed: the value of every feature other than take and sort, the
\* value of a where condition included, is coerced by one rule: true, false
\* and null in any letter case become True, False and None; otherwise an
\* integer text becomes the integer, otherwise a float text the float,
\* otherwise the text stays a string.
C14_OneRule ==
    compiled # Pending => StoredValue = selection[1].coerced

\* C14 as amended: the rule holds for every feature other than take, sort
\* and where; the value of a where condition is coerced by the same rule
\* without its first step: true, false and null stay strings.
C14_Coercion ==
    compiled # Pending =>
        StoredValue = IF selection[1].feature = WHERE_FEATURE THEN selection[1].plain
                      ELSE selection[1].coerced

\* C14 witness: the value TRUE of a where condition was compiled and is
\* held as the string it was
C14_Witness ==
    /\ compiled # Pending
    /\ selection[1].feature = WHERE_FEATURE
    /\ selection[1].value = <<"TRUE">>
    /\ StoredValue = VStr(<<"TRUE">>)

(***************************************************************************)
(* SpecBuilder: builder calls on Query objects.  A Query holds a reference *)
(* to its state mapping (a cell) and its executor; _update writes to the   *)
(* cell of a deep copy of the state, or to the receiver's own cell.        *)
(***************************************************************************)
MaxCalls == 2

Levels == {<<>>, <<"users">>}
Copies == {TRUE, FALSE}

\* the states a Query is constructed with: Query(state=..., executor=...)
GivenStates ==
    {EmptyDict} \cup {Single(METHOD_FEATURE, VStr(name)) : name \in {<<"get">>, <<"add">>}}

InitBuilder ==
    /\ \E executor \in {"none", "bound"} :
         queries = << [state |-> 1, executor |-> executor] >>
    /\ \E state \in GivenStates : cells = <<state>>
    /\ lastCall = NoCall
    /\ ncalls = 0
    /\ IdleExceptBuilder

\* a plausible slip: no deep copy, the receiver's own mapping is written to
UpdateTarget_shared(own, fresh, copy) == own

\* the mapping _update writes to: deepcopy(self.state) when copy, else self.state
UpdateTarget(own, fresh, copy) == IF copy THEN fresh ELSE own

\* Query(state=state): the executor is not handed on
QueryInit(cell) == [state |-> cell, executor |-> "none"]

\* self._update({key: value}, level=level, merge=mergeFlag, copy=copy) on object q
UpdateCall(op, q, key, value, level, mergeFlag, copy) ==
    LET own == queries[q].state
        fresh == Len(cells) + 1
        target == UpdateTarget(own, fresh, copy)
        new == Query_update(cells[own], Single(key, value), level, mergeFlag)
    IN  /\ ncalls < MaxCalls
        /\ ncalls' = ncalls + 1
        /\ IF IsErr(new)
           THEN /\ UNCHANGED <<queries, cells>>
                /\ lastCall' = [op |-> op, receiver |-> q, returned |-> 0, copy |-> copy,
                                level |-> level, key |-> key, before |-> cells[own]]
           ELSE /\ cells' = IF target = fresh THEN Append(cells, new)
                            ELSE [cells EXCEPT ![target] = new]
                /\ queries' = IF copy THEN Append(queries, QueryInit(target)) ELSE queries
                /\ lastCall' = [op |-> op, receiver |-> q,
                                returned |-> IF copy THEN Len(queries) + 1 ELSE q,
                                copy |-> copy, level |-> level, key |-> key,
                                before |-> cells[own]]
        /\ UNCHANGED exceptBuilder

\* query.take(*args, copy=copy), query.take.<level>(*args, copy=copy)
Take ==
    \E q \in DOMAIN queries, level \in Levels, copy \in Copies :
      \E args \in { << <<"id">> >>, << <<"-", "name">> >> } :
        UpdateCall("take", q, TAKE_FEATURE, TakeKwargs(args), level, TRUE, copy)

\* query.where(condition, copy=copy), at a level
Where ==
    \E q \in DOMAIN queries, level \in Levels, copy \in Copies :
        UpdateCall("where", q, WHERE_FEATURE,
                   Single(<<"=">>, VList(<<VStr(<<"name">>), VStr(<<"Joe">>)>>)),
                   level, FALSE, copy)

\* query.sort("name", copy=copy), at a level
Sort ==
    \E q \in DOMAIN queries, level \in Levels, copy \in Copies :
        UpdateCall("sort", q, SORT_FEATURE, VList(<<VStr(<<"name">>)>>), level, FALSE, copy)

\* query.group(count="id", copy=copy), at a level
Group ==
    \E q \in DOMAIN queries, level \in Levels, copy \in Copies :
        UpdateCall("group", q, <<"group">>, Single(<<"count">>, VStr(<<"id">>)),
                   level, TRUE, copy)

\* query.page(size=n, copy=copy)
Page ==
    \E q \in DOMAIN queries, copy \in Copies, n \in {10, 25} :
        UpdateCall("page", q, PAGE_FEATURE, Single(<<"size">>, VInt(n)), <<>>, TRUE, copy)

\* query.inspect(resource=True, copy=copy)
Inspect ==
    \E q \in DOMAIN queries, copy \in Copies :
        UpdateCall("inspect", q, <<"inspect">>, Single(<<"resource">>, VBool(TRUE)),
                   <<>>, TRUE, copy)

\* query.record(name)
Record ==
    \E q \in DOMAIN queries :
        UpdateCall("record", q, <<"record">>, VStr(<<"joe">>), <<>>, FALSE, TRUE)

\* query.field(name)
Field ==
    \E q \in DOMAIN queries :
        UpdateCall("field", q, <<"field">>, VStr(<<"name">>), <<>>, FALSE, TRUE)

\* query.method(name)
Method ==
    \E q \in DOMAIN queries, name \in {<<"get">>, <<"add">>} :
        UpdateCall("method", q, METHOD_FEATURE, VStr(name), <<>>, FALSE, TRUE)

\* query.body(body)
Body ==
    \E q \in DOMAIN queries :
        UpdateCall("body", q, <<"body">>, Single(<<"name">>, VStr(<<"Joe">>)),
                   <<>>, FALSE, TRUE)

\* the names getattr finds on an Executor: the methods of the class
ExecutorMethods ==
    { <<"get">>, <<"decode_cursor">>, <<"encode_cursor">>, <<"get_next_page">>,
      <<"resolve_resource">>, <<"select_fields">>, <<"can">>, <<"can_take_field">>,
      <<"should_take_field">>, <<"to_json_value">>, <<"serialize_value">>, <<"serialize">> }

\* the call method(self, **kwargs) made on the executor
Invoked(name) == [t |-> "invoked", method |-> name]

\* the attributes Executor.__init__ sets on the instance, for an executor
\* made as Executor(store): the store, an object, and the empty context
ExecutorAttributes ==
    (<<"store">> :> VObj(<<>>)) @@ (<<"context">> :> EmptyDict)

\* what getattr(self.executor, method_name, None) finds
ExecutorAttribute(method_name) ==
    IF method_name \in ExecutorMethods THEN Invoked(method_name)
    ELSE IF method_name \in DOMAIN ExecutorAttributes THEN ExecutorAttributes[method_name]
    ELSE VNone

\* method(self, **kwargs): the call of a method, or of a value that is none
CallAttribute(method) ==
    IF method.t = "invoked" THEN method ELSE Err("TypeError")

\* Query.execute() on a query with the state and the executor
Query_execute(state, executor) ==
    IF executor = "none" THEN Err("QueryExecutionError")
    ELSE LET method == ExecutorAttribute(DictGet(state, METHOD_FEATURE, VStr(<<"get">>)).s)
         IN  IF ~Truthy(method) THEN Err("QueryValidationError")
             ELSE CallAttribute(method)

\* query.execute()
QueryExecute ==
    \E q \in DOMAIN queries :
        /\ ncalls < MaxCalls
        /\ ncalls' = ncalls + 1
        /\ lastCall' = [op |-> "execute", receiver |-> q,
                        returned |-> Query_execute(cells[queries[q].state], queries[q].executor),
                        copy |-> FALSE, level |-> <<>>, key |-> METHOD_FEATURE,
                        before |-> cells[queries[q].state]]
        /\ UNCHANGED <<queries, cells, exceptBuilder>>

\* the copy _call goes through: self._update(args), or the receiver itself
\* when the step is not taken
CallCopy(taken, query, args) ==
    IF taken
    THEN [state |-> Query_update(query.state, args, <<>>, FALSE),
          executor |-> QueryInit(0).executor]
    ELSE query

\* the states of the copies _call has made on its way
CallCopies(names, passes, named, passed) ==
    (IF names THEN <<named.state>> ELSE <<>>) \o (IF passes THEN <<passed.state>> ELSE <<>>)

\* the end of _call: self.execute() on the last copy, after the copies made
CallEnd(names, passes, named, passed) ==
    [made |-> CallCopies(names, passes, named, passed),
     result |-> Query_execute(passed.state, passed.executor)]

\* _call from the copy that names the method on
CallNamed(names, named, record) ==
    CallEnd(names, Truthy(record), named,
            CallCopy(Truthy(record), named, Single(<<"record">>, record)))

\* Query._call(method, record=record) on a query with the state and the
\* executor: the copies it makes and what it returns or raises
Query_call(state, executor, method, record) ==
    CallNamed(DictGet(state, METHOD_FEATURE, VNone) # VStr(method),
              CallCopy(DictGet(state, METHOD_FEATURE, VNone) # VStr(method),
                       [state |-> state, executor |-> executor],
                       Single(METHOD_FEATURE, VStr(method))),
              record)

\* query.get(record=record), query.add(record=record); the copies made on
\* the way are not handed out and are gone when the call returns
Call ==
    /\ ncalls < MaxCalls
    /\ \E q \in DOMAIN queries, method \in {<<"get">>, <<"add">>},
          record \in {VNone, VStr(<<"joe">>)} :
      \E done \in {Query_call(cells[queries[q].state], queries[q].executor, method, record)} :
        /\ ncalls' = ncalls + 1
        /\ lastCall' = [op |-> "call", receiver |-> q, returned |-> done.result,
                        copy |-> FALSE, level |-> <<>>, key |-> METHOD_FEATURE,
                        method |-> method, made |-> done.made,
                        before |-> cells[queries[q].state]]
        /\ UNCHANGED <<queries, cells, exceptBuilder>>

NextBuilder ==
    \/ Take \/ Where \/ Sort \/ Group \/ Page
    \/ Inspect \/ Record \/ Field \/ Method \/ Body
    \/ QueryExecute \/ Call

SpecBuilder == InitBuilder /\ [][NextBuilder]_vars

StateOf(q) == cells[queries[q].state]

\* C7: a builder call made with copy=True returns a new Query, which holds
\* the update, and leaves the state of the query it was called on equal to
\* what it was before the call; with copy=False it returns the same Query,
\* whose state holds the update.  No call both changes the receiver and
\* returns a different object.
C7_BuilderImmutability ==
    lastCall.op \notin {"none", "execute", "call"} =>
        /\ lastCall.returned \in DOMAIN queries
        /\ Has(get_state(StateOf(lastCall.returned), lastCall.level), lastCall.key)
        /\ lastCall.copy =>
             /\ lastCall.returned # lastCall.receiver
             /\ StateOf(lastCall.receiver) = lastCall.before
        /\ ~lastCall.copy => lastCall.returned = lastCall.receiver
        /\ lastCall.returned # lastCall.receiver =>
             StateOf(lastCall.receiver) = lastCall.before

\* a copying call at a level was made on a query that already held that feature

C7_Witness ==
    /\ lastCall.op \notin {"none", "execute", "call"} /\ lastCall.copy
    /\ lastCall.level # <<>>
    /\ lastCall.before # EmptyDict
    /\ lastCall.key \in Keys(lastCall.before)
    /\ StateOf(lastCall.returned) # lastCall.before
    /\ StateOf(lastCall.receiver) = lastCall.before



\* the method the state of a query names: state.get("method", "get")
MethodOf(state) == DictGet(state, METHOD_FEATURE, VStr(<<"get">>)).s

\* C13: Query.execute raises QueryExecutionError, and calls nothing on an
\* executor, when the query has no executor; it raises QueryExecutionError
\* as well when the method of the state (default "get") is not a method of
\* the executor the query is bound to.
C13_ExecuteErrors ==
    lastCall.op = "execute" =>
        /\ queries[lastCall.receiver].executor = "none"
             => lastCall.returned = Err("QueryExecutionError")
        /\ ( /\ queries[lastCall.receiver].executor = "bound"
             /\ MethodOf(lastCall.before) \notin ExecutorMethods )
             => lastCall.returned = Err("QueryExecutionError")

\* C24: a builder call that returns a new Query returns one bound to the
\* executor of the query it was called on; and get() or add() on a query
\* bound to an executor ends in the call of the executor's method (or in
\* the rejection of a method the executor lacks), never in the
\* QueryExecutionError raised for a query without executor.
C24_ExecutorPreserved ==
    /\ ( /\ lastCall.op \notin {"none", "execute", "call"}
         /\ lastCall.returned \in DOMAIN queries )
         => queries[lastCall.returned].executor = queries[lastCall.receiver].executor
    /\ ( /\ lastCall.op = "call"
         /\ queries[lastCall.receiver].executor = "bound" )
         => /\ lastCall.returned # Err("QueryExecutionError")
            /\ lastCall.method \in ExecutorMethods => lastCall.returned = Invoked(lastCall.method)

(***************************************************************************)
(* expression.py: the expression evaluator                                 *)
(***************************************************************************)
DigitAtom(d) ==
    CASE d = 0 -> "0" [] d = 1 -> "1" [] d = 2 -> "2" [] d = 3 -> "3"
      [] d = 4 -> "4" [] d = 5 -> "5" [] d = 6 -> "6" [] d = 7 -> "7"
      [] d = 8 -> "8" [] d = 9 -> "9"

RECURSIVE DigitsOf(_)
DigitsOf(n) == IF n < 10 THEN <<DigitAtom(n)>> ELSE DigitsOf(n \div 10) \o <<DigitAtom(n % 10)>>

\* str(n) for an integer
TextOfInt(n) == IF n < 0 THEN <<"-">> \o DigitsOf(0 - n) ELSE DigitsOf(n)

\* str(x)
TextOf(x) ==
    CASE x.t = "str" -> x.s
      [] x.t = "int" -> TextOfInt(x.n)
      [] x.t = "bool" -> IF x.b THEN <<"True">> ELSE <<"False">>
      [] x.t = "none" -> <<"None">>
      [] OTHER -> <<"<repr>">>

\* utils.get and utils.resolve are not among the sources; they are modelled
\* from the specification: get is the dotted-path lookup into the context,
\* resolve renders the {{ path }} placeholders of a template text.
RECURSIVE Lookup(_, _)
Lookup(x, parts) ==
    IF parts = <<>> THEN x
    ELSE IF IsDict(x) /\ Has(x, Head(parts)) THEN Lookup(x.d[Head(parts)], Tail(parts))
    ELSE IF x.t = "obj" /\ Head(parts) \in DOMAIN x.a THEN Lookup(x.a[Head(parts)], Tail(parts))
    ELSE VNone

get(path, ctx) ==
    IF path.t = "str" THEN Lookup(ctx, Split(path.s, ".")) ELSE Err("TypeError")

RECURSIVE Substitute(_, _, _, _)
Substitute(s, ctx, inside, path) ==
    IF s = <<>> THEN IF inside THEN <<"{{">> \o path ELSE <<>>
    ELSE IF ~inside
         THEN IF Head(s) = "{{" THEN Substitute(Tail(s), ctx, TRUE, <<>>)
              ELSE <<Head(s)>> \o Substitute(Tail(s), ctx, FALSE, <<>>)
    ELSE IF Head(s) = "}}"
         THEN TextOf(Lookup(ctx, Split(path, "."))) \o Substitute(Tail(s), ctx, FALSE, <<>>)
    ELSE Substitute(Tail(s), ctx, TRUE, IF Head(s) = " " THEN path ELSE Append(path, Head(s)))

resolve(template, ctx) ==
    IF template.t = "str" THEN VStr(Substitute(template.s, ctx, FALSE, <<>>)) ELSE template

\* a Python tuple (value, resolved)
Pair(val, resolved) == [t |-> "tuple", value |-> val, resolved |-> resolved]

\* the loop of resolve_expression has no bound in the code; the model gives
\* up after MaxResolve rounds and reports that the loop is still running
MaxResolve == 3
Diverged == [t |-> "diverged"]

get_expression(expr, ctx) ==
    IF ~Truthy(expr) THEN expr
    ELSE LET path == resolve(expr, ctx) IN get(path, ctx)

\* iterating a value; a mapping yields its keys (in no modelled order)
Iterate(x) ==
    CASE x.t = "list" -> x.l
      [] x.t = "str" -> [i \in DOMAIN x.s |-> VStr(<<x.s[i]>>)]
      [] x.t = "dict" ->
           (CHOOSE q \in [1..Cardinality(Keys(x)) -> {VStr(k) : k \in Keys(x)}] :
                \A k \in Keys(x) : \E i \in DOMAIN q : q[i] = VStr(k))

\* whether the value can be iterated: iterating anything else raises TypeError
Iterable(x) == x.t \in {"list", "str", "dict"}

\* separator.join(values) on a list of values
StrJoin(separator, values) ==
    IF separator.t # "str" THEN Err("AttributeError")
    ELSE IF \E i \in DOMAIN values : values[i].t # "str" THEN Err("TypeError")
    ELSE VStr(Join([i \in DOMAIN values |-> values[i].s], separator.s))

\* a plausible slip: the values are joined as given, without being looked up
JoinItem_raw(v, ctx) == v

\* one value of a join mapping
JoinItem(v, ctx) == get_expression(v, ctx)

join_expression(expr, ctx) ==
    IF ~Truthy(expr) THEN expr
    ELSE IF IsDict(expr)
    THEN LET given == IF Has(expr, <<"values">>) THEN expr.d[<<"values">>] ELSE VNone
             separator == IF Has(expr, <<"separator">>) THEN expr.d[<<"separator">>]
                          ELSE VStr(<<" ">>)
         IN  IF ~Iterable(given) THEN Err("TypeError")
             ELSE LET items == Iterate(given)
                      values == [i \in DOMAIN items |-> JoinItem(items[i], ctx)]
                  IN  IF \E i \in DOMAIN values : IsErr(values[i])
                      THEN values[CHOOSE i \in DOMAIN values :
                                     IsErr(values[i]) /\ \A j \in 1..(i - 1) : ~IsErr(values[j])]
                      ELSE StrJoin(separator, values)
    ELSE IF expr.t = "list" THEN StrJoin(VStr(<<" ">>), expr.l)
    ELSE IF expr.t = "str"
    THEN LET values == get_expression(expr, ctx)
         IN  IF IsErr(values) THEN values
             ELSE IF values.t # "list" THEN Err("ValueError")
             ELSE StrJoin(VStr(<<" ">>), values.l)
    ELSE Err("UnboundLocalError")

value_expression(expr, ctx) == expr

methods == {<<"get">>, <<"format">>, <<"value">>, <<"join">>}

\* re.sub(r"{{\s*\.", "{{ self.", text)
RECURSIVE SkipSpaces(_)
SkipSpaces(s) == IF s # <<>> /\ Head(s) = " " THEN SkipSpaces(Tail(s)) ELSE s

RECURSIVE RewriteSelf(_)
RewriteSelf(s) ==
    IF s = <<>> THEN <<>>
    ELSE IF Head(s) = "{{" /\ StartsWith(SkipSpaces(Tail(s)), ".")
         THEN <<"{{", " ", "self", ".">> \o RewriteSelf(Tail(SkipSpaces(Tail(s))))
         ELSE <<Head(s)>> \o RewriteSelf(Tail(s))

RECURSIVE execute(_, _)
RECURSIVE ResolveLoop(_, _, _)
RECURSIVE format_expression(_, _)

resolve_expression(expr, ctx) == ResolveLoop(expr, ctx, MaxResolve)

ResolveLoop(expr, ctx, fuel) ==
    IF ~IsDict(expr) THEN expr
    ELSE IF fuel = 0 THEN Diverged
    ELSE LET r == execute(expr, ctx)
         IN  IF IsErr(r) \/ r = Diverged THEN r
             ELSE IF ~r.resolved THEN r.value
             ELSE ResolveLoop(r.value, ctx, fuel - 1)

format_expression(expr, ctx) ==
    IF ~Truthy(expr) THEN expr
    ELSE LET e == resolve_expression(expr, ctx)
         IN  IF IsErr(e) \/ e = Diverged THEN e
             ELSE IF IsDict(e)
             THEN LET fk == [k \in Keys(e) |-> format_expression(VStr(k), ctx)]
                      fv == [k \in Keys(e) |-> format_expression(e.d[k], ctx)]
                      bad == {k \in Keys(e) : fk[k].t # "str" \/ IsErr(fv[k]) \/ fv[k] = Diverged}
                  IN  IF bad # {}
                      THEN LET k == CHOOSE k \in bad : TRUE
                           IN  IF IsErr(fk[k]) \/ fk[k] = Diverged THEN fk[k]
                               ELSE IF fk[k].t # "str" THEN Err("TypeError") ELSE fv[k]
                      ELSE VDict([key \in {fk[k].s : k \in Keys(e)} |->
                                    fv[CHOOSE k \in Keys(e) : fk[k].s = key]])
             ELSE IF e.t = "list"
             THEN IF e.l = <<>> THEN e ELSE Err("TypeError")
             ELSE IF e.t = "str"
             THEN resolve(VStr(RewriteSelf(e.s)), Single(<<"self">>, ctx))
             ELSE Err("TypeError")

\* methods[method](args, context)
CallMethodOf(method, args, ctx) ==
    CASE method = <<"get">> -> get_expression(args, ctx)
      [] method = <<"format">> -> format_expression(args, ctx)
      [] method = <<"value">> -> value_expression(args, ctx)
      [] method = <<"join">> -> join_expression(args, ctx)

\* (methods[method](args, context), True), unless the call raised
Resolved(r) == IF IsErr(r) \/ r = Diverged THEN r ELSE Pair(r, TRUE)

execute(expr, ctx) ==
    IF ~Truthy(expr) THEN Pair(expr, FALSE)
    ELSE IF IsDict(expr)
    THEN IF Cardinality(Keys(expr)) # 1 THEN Pair(expr, FALSE)
         ELSE LET key == CHOOSE k \in Keys(expr) : TRUE
                  method == IF StartsWith(key, ".") THEN Tail(key) ELSE key
              IN  IF ~Has(expr, method) THEN Err("KeyError")
                  ELSE IF method \in methods
                  THEN Resolved(CallMethodOf(method, expr.d[method], ctx))
                  ELSE Pair(expr, FALSE)
    ELSE IF expr.t = "str" THEN Resolved(CallMethodOf(<<"get">>, expr, ctx))
    ELSE VNone

(***************************************************************************)
(* SpecExpr: one expression evaluated against one context                  *)
(***************************************************************************)
MaxValues == 2

Key(name) == <<name>>

Contexts ==
    { VDict([k \in {Key("a"), Key("b"), Key("c"), Key("n"), Key("l"), Key("loop")} |->
        CASE k = Key("a") -> VStr(<<"Joe">>)
          [] k = Key("b") -> VStr(<<"Smith">>)
          [] k = Key("c") -> Single(Key("d"), VStr(<<"Jr">>))
          [] k = Key("n") -> VInt(5)
          [] k = Key("l") -> VList(<<VStr(<<"x">>), VStr(<<"y">>)>>)
          [] k = Key("loop") -> Single(Key("get"), VStr(<<"loop">>))]),
      VDict([k \in {Key("a"), Key("b"), Key("c"), Key("n"), Key("l")} |->
        CASE k = Key("a") -> VStr(<<"Ann">>)
          [] k = Key("b") -> VStr(<<>>)
          [] k = Key("c") -> Single(Key("d"), VStr(<<"Sr">>))
          [] k = Key("n") -> VInt(0)
          [] k = Key("l") -> VList(<<>>)]) }

\* the paths a join names: texts, a nested text, a number, a path that is not there
Paths == {<<"a">>, <<"b">>, <<"c", ".", "d">>, <<"n">>, <<"missing">>}

Separators == {<<"-">>, <<",", " ">>, <<>>}

PathLists == UNION {[1..n -> {VStr(p) : p \in Paths}] : n \in 0..MaxValues}

JoinExpressions ==
    { Single(Key("join"), Single(Key("values"), VList(vs))) : vs \in PathLists }
    \cup { Single(Key("join"), VList(vs)) : vs \in PathLists }
    \cup { Single(Key("join"), Put(Single(Key("values"), VList(vs)), Key("separator"), VStr(sep))) :
             vs \in PathLists, sep \in Separators }

OtherExpressions ==
    { VNone, VInt(5), VStr(<<"a">>), VStr(<<"c", ".", "d">>),
      Single(Key("unknown_method"), VInt(1)),
      Single(<<".", "unknown_method">>, VInt(1)),
      EmptyDict, VBool(TRUE), VBool(FALSE), VStr(<<>>), VStr(<<"missing">>),
      VList(<<VStr(<<"a">>)>>), VList(<<>>),
      Single(<<".", "value">>, VInt(1)),
      Single(<<".", "join">>, Single(Key("values"), VList(<<VStr(<<"a">>)>>))),
      Single(Key("value"), Single(Key("value"), VStr(<<"a">>))),
      Single(Key("value"), Single(Key("get"), VStr(<<"c">>))),
      Single(Key("get"), VStr(<<"loop">>)),
      Single(Key("value"), Single(Key("get"), VStr(<<"loop">>))),
      Single(Key("get"), VStr(<<"c", ".", "d">>)),
      Single(<<".", "get">>, VStr(<<"a">>)),
      Single(Key("get"), Single(Key("get"), VStr(<<"a">>))),
      Single(Key("value"), Single(Key("x"), VInt(1))),
      Single(Key("join"), VList(<<VStr(<<"a">>), VStr(<<"b">>)>>)),
      Single(Key("join"), VStr(<<"l">>)),
      Single(Key("join"), VStr(<<"a">>)),
      Single(Key("join"), Single(Key("separator"), VStr(<<"-">>))),
      Single(Key("format"), VStr(<<"{{", ".", "a", "}}", " ", "x">>)),
      Single(Key("format"), VList(<<VStr(<<"a">>)>>)),
      Single(Key("format"), VList(<<VStr(<<"{{", ".", "a", "}}">>), VStr(<<"x">>)>>)),
      Single(Key("format"), VList(<<VList(<<VStr(<<"x">>)>>)>>)),
      Single(Key("format"), Put(Single(Key("x"), VStr(<<"{{", ".", "a", "}}">>)), Key("y"), VStr(<<"hi">>))),
      Single(Key("format"), Put(Single(Key("x"), Single(Key("z"), VStr(<<"{{", ".", "b", "}}">>))),
                                Key("y"), VStr(<<"hi">>))),
      Single(Key("format"), Put(Single(Key("x"), VList(<<VStr(<<"hi">>)>>)), Key("y"), VStr(<<"hi">>))),
      Single(Key("format"), Single(Key("get"), VStr(<<"loop">>))),
      Put(Single(Key("get"), VStr(<<"a">>)), Key("value"), VInt(1)) }

InitExpr ==
    /\ evalExpr \in JoinExpressions \cup OtherExpressions
    /\ evalContext \in Contexts
    /\ evalValue = Pending
    /\ evalOp = "none"
    /\ IdleExceptExpr

\* execute(expression, context)
Execute ==
    /\ evalOp = "none"
    /\ evalValue' = execute(evalExpr, evalContext)
    /\ evalOp' = "execute"
    /\ UNCHANGED <<evalExpr, evalContext, exceptExpr>>

\* resolve_expression(expression, context)
ResolveExpression ==
    /\ evalOp = "none"
    /\ evalValue' = resolve_expression(evalExpr, evalContext)
    /\ evalOp' = "resolve_expression"
    /\ UNCHANGED <<evalExpr, evalContext, exceptExpr>>

NextExpr == Execute \/ ResolveExpression

SpecExpr == InitExpr /\ [][NextExpr]_vars

\* the expression is {"join": {"values": [...]}} with or without a separator
IsJoinOfValues(e) ==
    /\ IsDict(e) /\ Keys(e) = {Key("join")}
    /\ IsDict(e.d[Key("join")])
    /\ Key("values") \in Keys(e.d[Key("join")])
    /\ Keys(e.d[Key("join")]) \subseteq {Key("values"), Key("separator")}

JoinValues(e) == e.d[Key("join")].d[Key("values")].l

JoinSeparator(e) ==
    IF Has(e.d[Key("join")], Key("separator")) THEN e.d[Key("join")].d[Key("separator")].s
    ELSE <<" ">>

\* what the dotted lookup of the i-th value of the join finds in the context
Found(i) == Lookup(evalContext, Split(JoinValues(evalExpr)[i].s, "."))

MethodName(key) == IF StartsWith(key, ".") THEN Tail(key) ELSE key

\* the only key of a single-key mapping
OnlyKey(e) == CHOOSE k \in Keys(e) : TRUE

\* a mapping that is not an expression: no key, several keys, or one key
\* that names no method
IsPlainMapping(e) ==
    /\ IsDict(e)
    /\ Cardinality(Keys(e)) = 1 => MethodName(OnlyKey(e)) \notin methods

\* C11: execute on a mapping that has no key, more than one key, or a single
\* key that names none of get, format, join, value returns the mapping
\* itself, unchanged, with was_resolved = False.
C11_PassThrough ==
    (evalOp = "execute" /\ IsPlainMapping(evalExpr))
    => evalValue = Pair(evalExpr, FALSE)

\* C12: execute always returns a pair: (expression, False) for a falsy
\* expression, (the dotted lookup of the text, True) for a text, and a pair
\* whose value is the literal for a truthy literal that is neither a text
\* nor a mapping.
C12_ExecuteTotal ==
    evalOp = "execute"
    => /\ evalValue.t = "tuple"
       /\ ~Truthy(evalExpr) => evalValue = Pair(evalExpr, FALSE)
       /\ (Truthy(evalExpr) /\ evalExpr.t = "str")
            => evalValue = Pair(Lookup(evalContext, Split(evalExpr.s, ".")), TRUE)
       /\ (Truthy(evalExpr) /\ evalExpr.t \notin {"str", "dict"})
            => evalValue.value = evalExpr

\* C18: resolve_expression terminates, and what it returns is not a mapping
\* or is a mapping that execute reports as unresolved; a context entry that
\* is an expression referring back to its own path does not make it loop.
C18_ResolveTerminates ==
    evalOp = "resolve_expression"
    => /\ evalValue # Diverged
       /\ IsDict(evalValue) => execute(evalValue, evalContext) = Pair(evalValue, FALSE)

\* C19: execute on {".m": args}, m one of get, format, join, value, returns
\* what execute returns on {"m": args}; with any other name after the "."
\* the mapping is returned unchanged with was_resolved = False.
C19_DotPrefix ==
    ( /\ evalOp = "execute"
      /\ IsDict(evalExpr) /\ Cardinality(Keys(evalExpr)) = 1
      /\ StartsWith(OnlyKey(evalExpr), ".") )
    => evalValue =
         IF MethodName(OnlyKey(evalExpr)) \in methods
         THEN execute(Single(MethodName(OnlyKey(evalExpr)), evalExpr.d[OnlyKey(evalExpr)]),
                      evalContext)
         ELSE Pair(evalExpr, FALSE)

\* C20: execute on {"join": [v1..vk]} returns what execute returns on
\* {"join": {"values": [v1..vk]}}: each element is looked up in the context
\* and the results are joined with one space.
C20_JoinBareList ==
    ( /\ evalOp = "execute"
      /\ IsDict(evalExpr) /\ Keys(evalExpr) = {Key("join")}
      /\ evalExpr.d[Key("join")].t = "list" )
    => evalValue = execute(Single(Key("join"), Single(Key("values"), evalExpr.d[Key("join")])),
                           evalContext)

\* the output has the shape of the input: a list of the same length, a
\* mapping with an entry for each entry of the input, and so on inside
RECURSIVE SameShape(_, _)
SameShape(given, made) ==
    CASE given.t = "list" ->
           /\ made.t = "list" /\ Len(made.l) = Len(given.l)
           /\ \A i \in DOMAIN given.l : SameShape(given.l[i], made.l[i])
      [] given.t = "dict" ->
           /\ made.t = "dict" /\ Keys(made) = Keys(given)
           /\ \A k \in Keys(given) : SameShape(given.d[k], made.d[k])
      [] OTHER -> made.t \notin {"list", "dict", "error", "diverged"}

\* the argument of format is a structure: a list, or a mapping that is not
\* itself an expression
IsStructure(args) == args.t = "list" \/ (IsPlainMapping(args) /\ Cardinality(Keys(args)) > 1)

\* C21: execute on {"format": args}, args a list or a mapping of texts,
\* lists and mappings, returns the structure of the same shape with every
\* element and every entry formatted against the context.
C21_FormatShape ==
    ( /\ evalOp = "execute"
      /\ IsDict(evalExpr) /\ Keys(evalExpr) = {Key("format")}
      /\ IsStructure(evalExpr.d[Key("format")]) )
    => /\ evalValue.t = "tuple"
       /\ SameShape(evalExpr.d[Key("format")], evalValue.value)

(***************************************************************************)
(* executor.py: cursors.  A cursor is the base64 text of the UTF-8 bytes   *)
(* of the JSON text of {"offset": n}; bytes are sequences of byte codes.   *)
(***************************************************************************)
VBytes(y) == [t |-> "bytes", y |-> y]

\* the base64 alphabet, one atom per character
B64Alphabet ==
    <<"A", "B", "C", "D", "E", "F", "G", "H", "I", "J", "K", "L", "M", "N", "O", "P",
       "Q", "R", "S", "T", "U", "V", "W", "X", "Y", "Z", "a", "b", "c", "d", "e", "f",
       "g", "h", "i", "j", "k", "l", "m", "n", "o", "p", "q", "r", "s", "t", "u", "v",
       "w", "x", "y", "z", "0", "1", "2", "3", "4", "5", "6", "7", "8", "9", "+", "/" >>

\* the byte code of the i-th character of the alphabet (i from 0); "=" pads
SextetCode(i) ==
    IF i < 26 THEN 65 + i
    ELSE IF i < 52 THEN 97 + (i - 26)
    ELSE IF i < 62 THEN 48 + (i - 52)
    ELSE IF i = 62 THEN 43
    ELSE IF i = 63 THEN 47
    ELSE 61

CodeSextet(code) == CHOOSE i \in 0..64 : SextetCode(i) = code

\* the UTF-8 bytes of one atom of a text
AtomBytes(a) ==
    CASE a = "{" -> <<123>>
      [] a = "}" -> <<125>>
      [] a = "\"" -> <<34>>
      [] a = ":" -> <<58>>
      [] a = " " -> <<32>>
      [] a = "," -> <<44>>
      [] a = "-" -> <<45>>
      [] a = "=" -> <<61>>
      [] a = "offset" -> <<111, 102, 102, 115, 101, 116>>
      [] OTHER -> <<SextetCode((CHOOSE i \in DOMAIN B64Alphabet : B64Alphabet[i] = a) - 1)>>

\* text.encode('utf-8')
RECURSIVE Utf8Encode(_)
Utf8Encode(s) == IF s = <<>> THEN <<>> ELSE AtomBytes(Head(s)) \o Utf8Encode(Tail(s))

\* bytes.decode('utf-8') of base64 bytes
Utf8Decode(y) ==
    [i \in DOMAIN y |-> IF y[i] = 61 THEN "=" ELSE B64Alphabet[CodeSextet(y[i]) + 1]]

\* json.dumps of an integer, or of a mapping of integers
RECURSIVE json_dumps(_)
json_dumps(x) ==
    CASE x.t = "int" -> TextOfInt(x.n)
      [] x.t = "dict" ->
           LET keys == Iterate(x)
           IN  <<"{">> \o Join([i \in DOMAIN keys |->
                                  <<"\"">> \o keys[i].s \o <<"\"", ":", " ">>
                                  \o json_dumps(x.d[keys[i].s])], <<",", " ">>) \o <<"}">>

\* the sextets of the bytes, three bytes to four sextets, 64 for a pad
RECURSIVE B64Sextets(_)
B64Sextets(y) ==
    IF y = <<>> THEN <<>>
    ELSE IF Len(y) = 1
    THEN <<y[1] \div 4, (y[1] % 4) * 16, 64, 64>>
    ELSE IF Len(y) = 2
    THEN <<y[1] \div 4, (y[1] % 4) * 16 + y[2] \div 16, (y[2] % 16) * 4, 64>>
    ELSE <<y[1] \div 4, (y[1] % 4) * 16 + y[2] \div 16,
           (y[2] % 16) * 4 + y[3] \div 64, y[3] % 64>> \o B64Sextets(SubSeq(y, 4, Len(y)))

\* base64.b64encode(bytes): bytes
b64encode(y) == LET q == B64Sextets(y) IN [i \in DOMAIN q |-> SextetCode(q[i])]

\* the bytes of the sextets, four sextets to three bytes less the pads
RECURSIVE B64Bytes(_)
B64Bytes(q) ==
    IF q = <<>> THEN <<>>
    ELSE IF q[3] = 64 THEN <<q[1] * 4 + q[2] \div 16>>
    ELSE IF q[4] = 64 THEN <<q[1] * 4 + q[2] \div 16, (q[2] % 16) * 16 + q[3] \div 4>>
    ELSE <<q[1] * 4 + q[2] \div 16, (q[2] % 16) * 16 + q[3] \div 4, (q[3] % 4) * 64 + q[4]>>
         \o B64Bytes(SubSeq(q, 5, Len(q)))

\* base64.b64decode(text): bytes
b64decode(s) ==
    IF Len(s) % 4 # 0 THEN Err("binascii.Error")
    ELSE LET y == Utf8Encode(s) IN VBytes(B64Bytes([i \in DOMAIN y |-> CodeSextet(y[i])]))

\* the bytes every cursor's JSON text starts with: {"offset": 
CursorPrefix == Utf8Encode(<<"{", "\"", "offset", "\"", ":", " ">>)

\* json.loads(bytes) on the JSON text of a cursor
json_loads(y) ==
    LET n == Len(CursorPrefix)
        number == SubSeq(y, n + 1, Len(y) - 1)
        digits == IF number # <<>> /\ Head(number) = 45 THEN Tail(number) ELSE number
    IN  IF /\ Len(y) > n + 1
           /\ SubSeq(y, 1, n) = CursorPrefix
           /\ y[Len(y)] = 125
           /\ digits # <<>>
           /\ \A i \in DOMAIN digits : digits[i] \in 48..57
        THEN Single(Key("offset"),
                    VInt((IF Head(number) = 45 THEN -1 ELSE 1)
                         * NatOf([i \in DOMAIN digits |-> DigitAtom(digits[i] - 48)], 0)))
        ELSE Err("JSONDecodeError")

\* Executor.decode_cursor(cursor): a str has no decode method
decode_cursor(cursor) ==
    IF cursor.t # "bytes" THEN Err("AttributeError")
    ELSE LET y == b64decode(Utf8Decode(cursor.y))
         IN  IF IsErr(y) THEN y ELSE json_loads(y.y)

\* Executor.encode_cursor(cursor)
encode_cursor(cursor) == VBytes(b64encode(Utf8Encode(json_dumps(cursor))))

\* conf.py is not among the sources: settings.DEFAULT_PAGE_SIZE is some
\* positive size, small here so that lists longer than a page exist
DEFAULT_PAGE_SIZE == 2


\* int(x)
IntOf(x) ==
    CASE x.t = "int" -> x
      [] x.t = "bool" -> VInt(IF x.b THEN 1 ELSE 0)
      [] x.t = "str" -> IF IsIntText(x.s) THEN VInt(IntOfText(x.s)) ELSE Err("ValueError")
      [] x.t = "float" ->
           LET whole == Split(x.f, ".")[1]
           IN  VInt(IF whole \in {<<>>, <<"-">>, <<"+">>} THEN 0 ELSE IntOfText(whole))
      [] OTHER -> Err("TypeError")

\* get_next_page up to the offset it encodes
NextOffset(state, offset, level) ==
    LET page == DictGet(get_state(state, level), PAGE_FEATURE, EmptyDict)
    IN  IF ~IsDict(page) THEN Err("AttributeError")
        ELSE LET size == IntOf(DictGet(page, Key("size"), VInt(DEFAULT_PAGE_SIZE)))
                 after == DictGet(page, Key("after"), VNone)
                 prior == IF after = VNone THEN VNone ELSE decode_cursor(after)
                 step == IF offset = VNone THEN size ELSE offset
             IN  IF IsErr(size) THEN size
                 ELSE IF IsErr(prior) THEN prior
                 ELSE IF prior = VNone THEN step
                 ELSE VInt(DictGet(prior, Key("offset"), VInt(0)).n + step.n)

\* Executor.get_next_page(query, offset, level)
get_next_page(state, offset, level) ==
    LET next_offset == NextOffset(state, offset, level)
    IN  IF IsErr(next_offset) THEN next_offset
        ELSE encode_cursor(Single(Key("offset"), next_offset))

(***************************************************************************)
(* SpecCursor: cursors encoded and decoded again, and a client paging      *)
(* through a level: each cursor get_next_page returns is put into          *)
(* page.after of the next request, as the bytes returned or as their text. *)
(***************************************************************************)
MaxOffset == 120
MaxPages == 3

PageSizes == {-1, 0, 1, 2, 10}

\* the cursor as the client hands it back
Carried(cursor, carrier) ==
    IF carrier = "bytes" THEN cursor ELSE VStr(Utf8Decode(cursor.y))

InitCursor ==
    /\ pageLevel \in Levels
    /\ pageCarrier \in {"bytes", "text"}
    /\ \/ pageState = EmptyDict
       \/ \E size \in PageSizes :
            pageState = Query_update(EmptyDict, Single(PAGE_FEATURE, Single(Key("size"), VInt(size))),
                                     pageLevel, TRUE)
    /\ pageOffsets = <<>>
    /\ pageCursor = Pending
    /\ trip = Pending
    /\ IdleExceptCursor

\* decode_cursor(encode_cursor({"offset": n})), the cursor carried as bytes,
\* or as the text of page.after in the state of a querystring
RoundTrip ==
    /\ trip = Pending /\ pageCursor = Pending
    /\ \E n \in 0..MaxOffset :
         LET cursor == Carried(encode_cursor(Single(Key("offset"), VInt(n))), pageCarrier)
             state == IF pageCarrier = "bytes"
                      THEN Query_page(EmptyDict, Single(Key("after"), cursor))
                      ELSE from_querystring(<<"page", ".", "after", "=">> \o cursor.s)
             after == state.d[PAGE_FEATURE].d[Key("after")]
         IN  trip' = [n |-> n, after |-> after, decoded |-> decode_cursor(after)]
    /\ UNCHANGED <<pageState, pageLevel, pageCarrier, pageOffsets, pageCursor, exceptCursor>>

\* Executor.get_next_page(query, level=level), and the next request made
\* with the cursor it returned
NextPage ==
    /\ trip = Pending
    /\ Len(pageOffsets) < MaxPages
    /\ ~IsErr(pageCursor)
    /\ LET cursor == get_next_page(pageState, VNone, pageLevel)
       IN  /\ pageCursor' = cursor
           /\ IF IsErr(cursor)
              THEN UNCHANGED <<pageState, pageOffsets>>
              ELSE /\ pageOffsets' = Append(pageOffsets, NextOffset(pageState, VNone, pageLevel).n)
                   /\ pageState' = Query_update(pageState,
                                      Single(PAGE_FEATURE, Single(Key("after"), Carried(cursor, pageCarrier))),
                                      pageLevel, TRUE)
    /\ UNCHANGED <<pageLevel, pageCarrier, trip, exceptCursor>>

NextCursor == RoundTrip \/ NextPage

SpecCursor == InitCursor /\ [][NextCursor]_vars

\* C8: for every non-negative integer n, decode_cursor(encode_cursor({"offset": n}))
\* is {"offset": n}, also when the encoded cursor is the text value of
\* page.after in a query state and is decoded from there.
C8_CursorRoundTrip ==
    trip # Pending => trip.decoded = Single(Key("offset"), VInt(trip.n))

\* the page size of the level: the configured one, or the default
SizeOfLevel ==
    LET page == DictGet(get_state(pageState, pageLevel), PAGE_FEATURE, EmptyDict)
    IN  DictGet(page, Key("size"), VInt(DEFAULT_PAGE_SIZE)).n

\* C9: along a chain of get_next_page calls, each given the cursor the call
\* before returned as page.after, the i-th cursor has offset i times the page
\* size of the level; the offsets are strictly increasing and none is negative.
C9_PaginationMonotonicity ==
    /\ pageCursor # Pending => ~IsErr(pageCursor)
    /\ \A i \in DOMAIN pageOffsets :
         /\ pageOffsets[i] = i * SizeOfLevel
         /\ pageOffsets[i] >= 0
    /\ \A i, j \in DOMAIN pageOffsets : i < j => pageOffsets[i] < pageOffsets[j]

(***************************************************************************)
(* executor.py: field selection                                            *)
(***************************************************************************)
\* a field descriptor and a resource, as the schema registry hands them out
FieldDescriptor(name, type, source, can, lazy) ==
    [t |-> "field", name |-> name, type |-> type, source |-> source, can |-> can, lazy |-> lazy]

Resource(id, fields) == [t |-> "resource", id |-> id, space |-> TRUE, fields |-> fields]

\* a plausible slip: the wildcard also takes the lazy fields
should_take_field_eager(field, take) ==
    IF take # VNone
    THEN LET defaults == DictGet(take, Key("*"), VBool(FALSE))
             should_take == DictGet(take, field.name, VNone)
         IN  IF should_take = VBool(FALSE) THEN FALSE
             ELSE IF should_take = VNone /\ ~Truthy(defaults) THEN FALSE
             ELSE TRUE
    ELSE ~field.lazy

\* Executor.should_take_field(field, take); take is None or a mapping
should_take_field(field, take) ==
    IF take # VNone
    THEN LET defaults == DictGet(take, Key("*"), VBool(FALSE))
             should_take == DictGet(take, field.name, VNone)
         IN  IF should_take = VBool(FALSE) THEN FALSE
             ELSE IF should_take = VNone /\ (field.lazy \/ ~Truthy(defaults)) THEN FALSE
             ELSE TRUE
    ELSE ~field.lazy

\* the names the module executor.py binds (lines 1-7 and the class): a
\* call of any other name raises NameError
ExecutorGlobals == {"base64", "json", "SerializationError", "settings", "get", "get_link", "Executor"}

\* a plausible slip: a rule that does not name the action allows it
can_take_field_lenient(field, action, state, request) ==
    IF field.can # VNone /\ Has(field.can, action)
    THEN LET can == field.can.d[action]
         IN  IF IsDict(can)
             THEN execute(can, VDict((Key("request") :> request) @@ (Key("query") :> state)))
             ELSE can
    ELSE VBool(TRUE)

\* Executor.can_take_field(field, action, query, request)
can_take_field(field, action, state, request) ==
    IF field.can # VNone
    THEN IF Has(field.can, action)
         THEN LET can == field.can.d[action]
              IN  IF IsDict(can)
                  THEN IF "execute" \in ExecutorGlobals
                       THEN execute(can, VDict((Key("request") :> request) @@ (Key("query") :> state)))
                       ELSE Err("NameError")
                  ELSE can
         ELSE VBool(FALSE)
    ELSE VBool(TRUE)

\* the fields, of those in order, whose permission is truthy
RECURSIVE Permitted(_, _)
Permitted(fields, allowed) ==
    IF fields = <<>> THEN <<>>
    ELSE (IF Truthy(allowed[1]) THEN <<fields[1]>> ELSE <<>>)
         \o Permitted(Tail(fields), Tail(allowed))

\* the first exception in a sequence of results
FirstError(results) ==
    results[CHOOSE i \in DOMAIN results :
               IsErr(results[i]) /\ \A j \in 1..(i - 1) : ~IsErr(results[j])]

\* state.get("take") at a level, as select_fields and serialize read it
TakeAt(state, level) == DictGet(get_state(state, level), TAKE_FEATURE, VNone)

\* the fields the take filter lets through
Wanted(fields, take) == SelectSeq(fields, LAMBDA field : should_take_field(field, take))

\* the list a loop has built, or the exception that ended it
ListOrError(results) ==
    IF \E i \in DOMAIN results : IsErr(results[i]) THEN FirstError(results)
    ELSE VList(results)

\* the result of the loop over the fields, from the permission of each
SelectResult(wanted, allowed) ==
    IF \E i \in DOMAIN allowed : IsErr(allowed[i]) THEN FirstError(allowed)
    ELSE VList(Permitted(wanted, allowed))

\* the loop of select_fields over the fields the take filter lets through
SelectFrom(wanted, action, state, request) ==
    SelectResult(wanted, [i \in DOMAIN wanted |-> can_take_field(wanted[i], action, state, request)])

\* Executor.select_fields(resource, action, level, query, request): the
\* list of fields, or the exception raised
select_fields(resource, action, level, state, request) ==
    SelectFrom(Wanted(resource.fields, TakeAt(state, level)), action, state, request)

(***************************************************************************)
(* executor.py: serialization                                              *)
(***************************************************************************)
\* type_utils.py is not among the sources: get_link(type) is the name of
\* the resource the type links to ("@name", also inside a container), or None
RECURSIVE get_link(_)
get_link(T) ==
    IF T.t = "str"
    THEN IF \E i \in DOMAIN T.s : T.s[i] = "@"
         THEN VStr(SubSeq(T.s, (CHOOSE i \in DOMAIN T.s : T.s[i] = "@" /\ \A j \in 1..(i - 1) : T.s[j] # "@") + 1,
                          Len(T.s)))
         ELSE VNone
    ELSE IF IsDict(T) /\ Has(T, Key("of")) THEN get_link(T.d[Key("of")])
    ELSE VNone

\* raise SerializationError(...): the exception, told apart by what it reports
SerializationError(detail) == [t |-> "error", e |-> "SerializationError", detail |-> detail]

\* Executor.resolve_resource(base_resource, name)
resolve_resource(base_resource, name) ==
    IF ~base_resource.space THEN SerializationError("cannot lookup resource")
    ELSE IF name \in DOMAIN resources THEN resources[name]
    ELSE SerializationError("resource not found")

\* getattr(value, "pk", value)
PrimaryKey(x) == IF x.t = "obj" /\ Key("pk") \in DOMAIN x.a THEN x.a[Key("pk")] ELSE x

\* Executor.to_json_value(value)
RECURSIVE to_json_value(_)
to_json_value(x) ==
    CASE x.t = "list" -> VList([i \in DOMAIN x.l |-> to_json_value(x.l[i])])
      [] x.t = "dict" -> VDict([k \in Keys(x) |-> to_json_value(x.d[k])])
      [] x.t \in {"bool", "str", "int", "float", "none"} -> x
      [] x.t = "obj" /\ Key("url") \in DOMAIN x.a ->
           IF IsErr(x.a[Key("url")]) THEN VNone
           ELSE IF x.a[Key("url")] # VNone THEN VStr(TextOf(x.a[Key("url")]))
           ELSE VStr(TextOf(x))
      [] OTHER -> VStr(TextOf(x))

\* Executor.serialize_value(value)
serialize_value(x) ==
    to_json_value(IF x.t = "list" THEN VList([i \in DOMAIN x.l |-> PrimaryKey(x.l[i])])
                  ELSE PrimaryKey(x))

\* value = list(value.all()) for a many-related manager
Materialized(x) == IF x.t = "manager" THEN VList(x.m) ELSE x

\* value[:n]
Slice(l, n) ==
    IF n >= 0 THEN SubSeq(l, 1, IF n < Len(l) THEN n ELSE Len(l))
    ELSE SubSeq(l, 1, IF Len(l) + n > 0 THEN Len(l) + n ELSE 0)

\* the value handed on to the nested serialization: a list longer than the
\* page is cut to the page
Truncated(x, page_size) ==
    IF x.t # "list" THEN x
    ELSE IF page_size.t \notin {"int", "bool", "float"} THEN Err("TypeError")
    ELSE IF page_size.t = "int" /\ Len(x.l) > page_size.n THEN VList(Slice(x.l, page_size.n))
    ELSE x

\* a plausible slip: the related records are serialized with all their fields
RelatedFields_all(related, level, state, request) == VList(related.fields)

\* the fields of the related resource that a nested serialization emits
RelatedFields(related, level, state, request) ==
    select_fields(related, Key("get"), level, state, request)

RECURSIVE serialize(_, _, _, _, _, _)

\* the source the value of a field is read from
FieldSource(field) == IF field.source.t = "str" THEN field.source.s ELSE field.name

\* the value of the source: from the record, or without one from the context
ValueAt(source, record, state, request) ==
    IF Truthy(record) THEN get(VStr(source), record)
    ELSE IF StartsWith(source, ".")
    THEN get(VStr(Tail(source)),
             VDict((Key("fields") :> record) @@ (Key("request") :> request)
                   @@ (Key("query") :> state)))
    ELSE SerializationError("source must start with .")

\* take.get(name, None) where take is not None
TakeEntry(take, name) == IF take = VNone THEN VNone ELSE DictGet(take, name, VNone)

\* the page size serialize reads at its level
PageSizeAt(state, level) ==
    DictGet(DictGet(get_state(state, level), PAGE_FEATURE, EmptyDict), Key("size"),
            VInt(DEFAULT_PAGE_SIZE))

\* a plausible slip: the related resource is looked up before the link is checked
RelatedResource_lookup_first(resource, link) ==
    resolve_resource(resource, IF Truthy(link) THEN link.s ELSE <<>>)

\* the resource a field's type links to
RelatedResource(resource, link) ==
    IF Truthy(link) THEN resolve_resource(resource, link.s)
    ELSE SerializationError("type has no link")

\* the level of a relation below a level
RelatedLevel(level, name) == IF level = <<>> THEN name ELSE level \o <<".">> \o name

\* the nested serialization, unless a step before it raised
SerializeNested(related, related_fields, cut, state, related_level, request) ==
    IF IsErr(related) THEN related
    ELSE IF IsErr(cut) THEN cut
    ELSE IF IsErr(related_fields) THEN related_fields
    ELSE serialize(related, related_fields.l, cut, state, related_level, request)

\* the relation of a field serialized as objects
SerializeRelation(related, val, page_size, state, related_level, request) ==
    SerializeNested(related,
                    IF IsErr(related) THEN related
                    ELSE RelatedFields(related, related_level, state, request),
                    Truncated(val, page_size), state, related_level, request)

\* the value emitted for a field, given its value and its entry in take
SerializeTaken(resource, field, val, take_field, state, level, request) ==
    IF IsErr(val) THEN val
    ELSE IF IsDict(take_field)
    THEN SerializeRelation(RelatedResource(resource, get_link(field.type)), val,
                           PageSizeAt(state, level), state,
                           RelatedLevel(level, field.name), request)
    ELSE serialize_value(val)

\* the body of the loop over the fields: the value emitted for one field
SerializeField(resource, field, record, state, level, request) ==
    SerializeTaken(resource, field,
                   Materialized(ValueAt(FieldSource(field), record, state, request)),
                   TakeEntry(TakeAt(state, level), field.name), state, level, request)

\* result[name] = value for each field, unless a value raised
RecordOrError(fields, vals) ==
    IF \E i \in DOMAIN vals : IsErr(vals[i]) THEN FirstError(vals)
    ELSE VDict([n \in {fields[i].name : i \in DOMAIN fields} |->
                  vals[CHOOSE i \in DOMAIN fields :
                          fields[i].name = n /\ \A j \in DOMAIN fields : fields[j].name = n => j <= i]])

\* the body of the loop over the records: the mapping emitted for one record
SerializeRecord(resource, fields, record, state, level, request) ==
    RecordOrError(fields, [i \in DOMAIN fields |->
                     SerializeField(resource, fields[i], record, state, level, request)])

\* Executor.serialize(resource, fields, record, query, level, request)
serialize(resource, fields, record, state, level, request) ==
    IF record.t = "list"
    THEN ListOrError([i \in DOMAIN record.l |->
                        SerializeRecord(resource, fields, record.l[i], state, level, request)])
    ELSE SerializeRecord(resource, fields, record, state, level, request)

(***************************************************************************)
(* SpecExec: one call on the executor, for a space of two resources (users *)
(* with their groups), one query state and one request                     *)
(***************************************************************************)
Absent == [t |-> "absent"]

\* the mapping with the entry, unless the entry is absent
WithEntry(d, k, x) == IF x = Absent THEN d ELSE Put(d, k, x)

LinkTo(name) == VStr(<<"@", name>>)
ArrayOf(T) == VDict((Key("is") :> VStr(<<"array">>)) @@ (Key("of") :> T))

\* the permission rules of a field: none, an empty mapping, booleans by
\* action, an expression
CanRules ==
    { VNone,
      EmptyDict,
      Single(Key("get"), VBool(TRUE)),
      Single(Key("get"), VBool(FALSE)),
      Single(Key("set"), VBool(TRUE)),
      Single(Key("get"), Single(Key("get"), VStr(<<"request", ".", "is_superuser">>))) }

GroupsTypes == {ArrayOf(LinkTo("groups")), ArrayOf(VStr(<<"number">>)), ArrayOf(LinkTo("posts"))}

Schema(lazy, type, can) ==
    (Key("users") :>
        Resource(Key("users"),
            << FieldDescriptor(Key("id"), VStr(<<"number">>), VStr(Key("id")), VNone, FALSE),
               FieldDescriptor(Key("name"), VStr(<<"string">>), VStr(Key("name")), can, FALSE),
               FieldDescriptor(Key("groups"), type, VStr(Key("groups")), VNone, lazy) >>))
    @@ (Key("groups") :>
        Resource(Key("groups"),
            << FieldDescriptor(Key("id"), VStr(<<"number">>), VStr(Key("id")), VNone, FALSE),
               FieldDescriptor(Key("name"), VStr(<<"string">>), VStr(Key("name")), can, FALSE),
               FieldDescriptor(Key("note"), VStr(<<"string">>), VStr(Key("note")), VNone, TRUE) >>))

Requests == {Single(Key("is_superuser"), VBool(TRUE)), Single(Key("is_superuser"), VBool(FALSE))}

\* the records of the store: a user, and the groups the user is in
GroupRecord(pk, name) ==
    VObj((Key("pk") :> VInt(pk)) @@ (Key("id") :> VInt(pk)) @@ (Key("name") :> VStr(<<name>>))
         @@ (Key("note") :> VStr(<<"-">>)))

GroupRecords == <<GroupRecord(11, "admins"), GroupRecord(12, "staff"), GroupRecord(13, "guests")>>

UserRecord ==
    VDict((Key("id") :> VInt(1)) @@ (Key("name") :> VStr(<<"Joe">>))
          @@ (Key("groups") :> VManager(GroupRecords)))

\* what take says of the groups of a user: a boolean, or the state of the level
GroupsEntries ==
    { Absent, VBool(TRUE), VBool(FALSE), EmptyDict,
      Single(TAKE_FEATURE, Single(Key("id"), VBool(TRUE))),
      Single(TAKE_FEATURE, Put(Single(Key("name"), VBool(TRUE)), Key("id"), VBool(FALSE))),
      Put(Single(TAKE_FEATURE, Single(Key("*"), VBool(TRUE))),
          PAGE_FEATURE, Single(Key("size"), VInt(1))) }

Flags == {Absent, VBool(TRUE), VBool(FALSE)}

Takes ==
    {Absent} \cup
    { WithEntry(WithEntry(WithEntry(EmptyDict, Key("name"), n), Key("groups"), g), Key("*"), star) :
        n \in Flags, g \in GroupsEntries, star \in Flags }

ExecStates ==
    { WithEntry(WithEntry(EmptyDict, TAKE_FEATURE, take), PAGE_FEATURE, page) :
        take \in Takes, page \in {Absent, Single(Key("size"), VInt(1))} }

InitExec ==
    /\ \E lazy \in BOOLEAN, type \in GroupsTypes, can \in CanRules :
         resources = Schema(lazy, type, can)
    /\ execState \in ExecStates
    /\ execRequest \in Requests
    /\ outcome = NoCall
    /\ IdleExceptExec

\* the take of the top level, as select_fields reads it
TopTake == TakeAt(execState, <<>>)

\* Executor.should_take_field(field, take) for a field of users
ShouldTakeField ==
    /\ outcome = NoCall
    /\ \E i \in DOMAIN resources[Key("users")].fields :
         LET field == resources[Key("users")].fields[i]
         IN  outcome' = [op |-> "should_take_field", field |-> field, take |-> TopTake,
                         result |-> should_take_field(field, TopTake)]
    /\ UNCHANGED <<resources, execState, execRequest, exceptExec>>

\* Executor.can_take_field(field, action, query, request) for a field of users
CanTakeField ==
    /\ outcome = NoCall
    /\ \E i \in DOMAIN resources[Key("users")].fields, action \in {Key("get"), Key("set")} :
         LET field == resources[Key("users")].fields[i]
         IN  outcome' = [op |-> "can_take_field", field |-> field, action |-> action,
                         result |-> can_take_field(field, action, execState, execRequest)]
    /\ UNCHANGED <<resources, execState, execRequest, exceptExec>>

\* Executor.select_fields(resource, action, level, query, request)
SelectFields ==
    /\ outcome = NoCall
    /\ \E at \in {<<Key("users"), <<>>>>, <<Key("groups"), Key("groups")>>},
          action \in {Key("get"), Key("set")} :
         outcome' = [op |-> "select_fields", resource |-> at[1], level |-> at[2],
                     action |-> action,
                     result |-> select_fields(resources[at[1]], action, at[2],
                                              execState, execRequest)]
    /\ UNCHANGED <<resources, execState, execRequest, exceptExec>>

\* Executor.serialize(users, fields, record, query, request=request), with
\* the fields select_fields gave for the top level
Serialize ==
    /\ outcome = NoCall
    /\ \E fields \in {select_fields(resources[Key("users")], Key("get"), <<>>, execState, execRequest)} :
           /\ ~IsErr(fields)
           /\ outcome' = [op |-> "serialize", fields |-> fields.l,
                          result |-> serialize(resources[Key("users")], fields.l, UserRecord,
                                               execState, <<>>, execRequest)]
    /\ UNCHANGED <<resources, execState, execRequest, exceptExec>>

NextExec == ShouldTakeField \/ CanTakeField \/ SelectFields \/ Serialize

SpecExec == InitExec /\ [][NextExec]_vars

\* what a take says of a field: its entry, or that it has none
EntryOf(take, field) == IF take = VNone THEN Absent ELSE DictGet(take, field.name, Absent)

\* C4: should_take_field, for every field and every take: when take is absent
\* the field is included iff it is not lazy; when take is present, a field
\* whose entry is false is excluded, a field whose entry is true or a mapping
\* (an empty one too) is included, and a field with no entry is included iff
\* take["*"] is true and the field is not lazy.
C4_TakeFilter ==
    outcome.op = "should_take_field" =>
        LET field == outcome.field
            take == outcome.take
            entry == EntryOf(take, field)
        IN  /\ take = VNone => (outcome.result <=> ~field.lazy)
            /\ (take # VNone /\ entry = VBool(FALSE)) => ~outcome.result
            /\ (take # VNone /\ (entry = VBool(TRUE) \/ IsDict(entry))) => outcome.result
            /\ (take # VNone /\ entry = Absent) =>
                 (outcome.result <=> (DictGet(take, Key("*"), Absent) = VBool(TRUE) /\ ~field.lazy))

\* C4 witness: the wildcard was set, and a lazy field without an entry of
\* its own was left out
C4_Witness ==
    /\ outcome.op = "should_take_field"
    /\ outcome.take # VNone
    /\ DictGet(outcome.take, Key("*"), Absent) = VBool(TRUE)
    /\ EntryOf(outcome.take, outcome.field) = Absent
    /\ outcome.field.lazy
    /\ ~outcome.result

\* the field's rule for reading is an expression
GatedByExpression(field) ==
    /\ field.can # VNone
    /\ Has(field.can, Key("get"))
    /\ IsDict(field.can.d[Key("get")])

\* the value the field's rule resolves to against {request, query state}
RuleValue(field) ==
    execute(field.can.d[Key("get")],
            VDict((Key("request") :> execRequest) @@ (Key("query") :> execState))).value

\* C5: a field whose can["get"] is a mapping, and which the take filter lets
\* through, is among the fields select_fields returns exactly when the
\* mapping, evaluated as an expression against {request, query state},
\* resolves to true.
C5_PermissionGating ==
    (outcome.op = "select_fields" /\ outcome.action = Key("get")) =>
        \A i \in DOMAIN resources[outcome.resource].fields :
            LET field == resources[outcome.resource].fields[i]
                take == DictGet(get_state(execState, outcome.level), TAKE_FEATURE, VNone)
            IN  (GatedByExpression(field) /\ should_take_field(field, take)) =>
                    /\ ~IsErr(outcome.result)
                    /\ (\E j \in DOMAIN outcome.result.l : outcome.result.l[j] = field)
                         <=> RuleValue(field) = VBool(TRUE)

\* the field's rule for the action is an expression
RuleIsExpression(field, action) ==
    /\ field.can # VNone
    /\ Has(field.can, action)
    /\ IsDict(field.can.d[action])

\* what the rules say of a field whose rule is not an expression: no rule
\* allows, a rule that lacks the action denies, else the rule's boolean
AllowedByRule(field, action) ==
    \/ field.can = VNone
    \/ /\ Has(field.can, action)
       /\ field.can.d[action] = VBool(TRUE)

IsRelation(field) == get_link(field.type) # VNone

\* the primary keys of the groups of the user
GroupKeys == VList([k \in DOMAIN GroupRecords |-> GroupRecords[k].a[Key("pk")]])

\* a record of the groups, cut down to the fields named
Projected(record, fields) ==
    VDict([n \in {fields[i].name : i \in DOMAIN fields} |-> record.a[n]])

Expanded(fields) == {i \in DOMAIN fields : IsDict(TakeEntry(TopTake, fields[i].name))}

Min(a, b) == IF a < b THEN a ELSE b

\* C23: when serialize expands the list-valued relation f of the level L,
\* the list emitted is as long as the lesser of the number of related
\* records and the page size of the relation's own level L.f (the default
\* when that level sets none), and holds the first records in order.
C23_RelationTruncation ==
    (outcome.op = "serialize" /\ ~IsErr(outcome.result)) =>
        \A i \in Expanded(outcome.fields) :
            LET field == outcome.fields[i]
                emitted == outcome.result.d[field.name]
                selected == select_fields(resources[get_link(field.type).s], Key("get"),
                                          field.name, execState, execRequest)
            IN  /\ emitted.t = "list"
                /\ Len(emitted.l) = Min(Len(GroupRecords), PageSizeAt(execState, field.name).n)
                /\ \A k \in DOMAIN emitted.l :
                     emitted.l[k] = Projected(GroupRecords[k], selected.l)

(***************************************************************************)
(* SpecSource: serialize on a resource of one field, for the sources a     *)
(* field can have and the records a caller can hand over                   *)
(***************************************************************************)
Path(names) == Join([i \in DOMAIN names |-> <<names[i]>>], <<".">>)

\* the sources of a field: a name, a dotted path, a path into the context,
\* an expression
Sources ==
    { VNone,
      VStr(Path(<<"name">>)),
      VStr(Path(<<"first">>)),
      VStr(Path(<<"profile", "first">>)),
      VStr(<<".">> \o Path(<<"request", "user_id">>)),
      VStr(<<".">> \o Path(<<"query", "method">>)),
      Single(Key("get"), VStr(Path(<<"fields", "first">>))),
      Single(Key("join"), Single(Key("values"),
             VList(<<VStr(Path(<<"fields", "first">>)), VStr(Path(<<"fields", "last">>))>>))),
      Single(Key("value"), VInt(1)) }

PersonRecord(name, first, last) ==
    VDict((Key("name") :> VStr(<<name>>)) @@ (Key("first") :> VStr(<<first>>))
          @@ (Key("last") :> VStr(<<last>>))
          @@ (Key("profile") :> Single(Key("first"), VStr(<<first, "!">>))))

\* what a caller hands over as the record: nothing, a mapping (an empty one
\* too), a list of mappings
Records ==
    { VNone, EmptyDict,
      PersonRecord("Joe Smith", "Joe", "Smith"),
      VList(<<>>),
      VList(<<PersonRecord("Joe Smith", "Joe", "Smith"), PersonRecord("Ann Lee", "Ann", "Lee")>>),
      VList(<<PersonRecord("Ann Lee", "Ann", "Lee"), EmptyDict>>) }

SourceStates ==
    { EmptyDict, Single(METHOD_FEATURE, VStr(<<"get">>)),
      Single(TAKE_FEATURE, Single(Key("name"), VBool(TRUE))) }

SourceRequests == {Single(Key("user_id"), VInt(7)), Single(Key("user_id"), VInt(8))}

InitSource ==
    /\ \E source \in Sources :
         resources = (Key("people") :>
             Resource(Key("people"),
                 << FieldDescriptor(Key("name"), VStr(<<"string">>), source, VNone, FALSE) >>))
    /\ execState \in SourceStates
    /\ execRequest \in SourceRequests
    /\ outcome = NoCall
    /\ IdleExceptExec

\* Executor.serialize(people, people.fields, record, query, request=request)
SerializeSource ==
    /\ outcome = NoCall
    /\ \E record \in Records :
         outcome' = [op |-> "serialize_source", record |-> record,
                     result |-> serialize(resources[Key("people")], resources[Key("people")].fields,
                                          record, execState, <<>>, execRequest)]
    /\ UNCHANGED <<resources, execState, execRequest, exceptExec>>

NextSource == SerializeSource

SpecSource == InitSource /\ [][NextSource]_vars

\* the source of the one field of the resource
TheSource == resources[Key("people")].fields[1].source

\* the context serialize builds for a record
ContextOf(record) ==
    VDict((Key("fields") :> record) @@ (Key("request") :> execRequest)
          @@ (Key("query") :> execState))

\* the mapping serialize emits for a record whose field has the value
Emitted(val) == Single(Key("name"), serialize_value(val))

\* C15: for a record that is a mapping, a source that is a mapping is
\* evaluated as an expression against {fields: record, request, query} and
\* the result emitted as the value of the field; a source that is a string
\* gives the dotted lookup of the string on the record.
C15_ComputedSource ==
    (outcome.op = "serialize_source" /\ IsDict(outcome.record) /\ Truthy(outcome.record)) =>
        /\ IsDict(TheSource) =>
             outcome.result = Emitted(execute(TheSource, ContextOf(outcome.record)).value)
        /\ TheSource.t = "str" =>
             outcome.result = Emitted(Lookup(outcome.record, Split(TheSource.s, ".")))

\* the record is handed over: it is not None
Supplied(record) == record # VNone

\* C16: for a field whose source is a string: without a record, serialize
\* raises SerializationError when the source does not begin with "." and
\* otherwise looks the source, without its dot, up in {fields, request,
\* query}; with a record, an empty mapping or the element of a list too, the
\* value is read from the record and the error is not raised.
C16_ContextOnly ==
    (outcome.op = "serialize_source" /\ TheSource.t = "str") =>
        LET source == TheSource.s
            record == outcome.record
        IN  /\ (~Supplied(record) /\ ~StartsWith(source, "."))
                 => outcome.result = SerializationError("source must start with .")
            /\ (~Supplied(record) /\ StartsWith(source, "."))
                 => outcome.result = Emitted(Lookup(ContextOf(record), Split(Tail(source), ".")))
            /\ Supplied(record) =>
                 /\ outcome.result # SerializationError("source must start with .")
                 /\ IsDict(record) => outcome.result = Emitted(Lookup(record, Split(source, ".")))
                 /\ record.t = "list" =>
                      outcome.result =
                        VList([k \in DOMAIN record.l |->
                                 Emitted(Lookup(record.l[k], Split(source, ".")))])

(***************************************************************************)
(* SpecFrame: one feature update at the level of the groups of a user, on  *)
(* a query in some state, and the fields select_fields then gives for the  *)
(* level above                                                             *)
(***************************************************************************)
InitFrame ==
    /\ \E lazy \in BOOLEAN : resources = Schema(lazy, ArrayOf(LinkTo("groups")), VNone)
    /\ \E state \in ExecStates : cells = <<state>>
    /\ queries = << [state |-> 1, executor |-> "bound"] >>
    /\ execRequest \in Requests
    /\ execState = EmptyDict
    /\ outcome = NoCall
    /\ lastCall = NoCall
    /\ ncalls = 0
    /\ QueryIdle /\ ExprIdle /\ CursorIdle

\* query.where.groups(condition, copy=copy)
WhereGroups ==
    /\ lastCall = NoCall
    /\ \E copy \in Copies :
         UpdateCall("where", 1, WHERE_FEATURE,
                    Single(<<"=">>, VList(<<VStr(<<"name">>), VStr(<<"admins">>)>>)),
                    Key("groups"), FALSE, copy)

\* query.sort.groups("name", copy=copy)
SortGroups ==
    /\ lastCall = NoCall
    /\ \E copy \in Copies :
         UpdateCall("sort", 1, SORT_FEATURE, VList(<<VStr(<<"name">>)>>),
                    Key("groups"), FALSE, copy)

\* query.group.groups(count="id", copy=copy)
GroupGroups ==
    /\ lastCall = NoCall
    /\ \E copy \in Copies :
         UpdateCall("group", 1, <<"group">>, Single(<<"count">>, VStr(<<"id">>)),
                    Key("groups"), TRUE, copy)

\* the key page.groups=size:n of a querystring, as from_querystring applies it
PageGroups ==
    /\ lastCall = NoCall
    /\ \E n \in {1, 3} :
         UpdateCall("page", 1, PAGE_FEATURE, Single(<<"size">>, VInt(n)),
                    Key("groups"), TRUE, FALSE)

\* Executor.select_fields(users, "get", None, query, request) on the query
\* the update returned
SelectParent ==
    /\ lastCall # NoCall
    /\ lastCall.returned \in DOMAIN queries
    /\ outcome = NoCall
    /\ outcome' = [op |-> "select_fields", resource |-> Key("users"), level |-> <<>>,
                   action |-> Key("get"),
                   result |-> select_fields(resources[Key("users")], Key("get"), <<>>,
                                            cells[queries[lastCall.returned].state],
                                            execRequest)]
    /\ UNCHANGED <<resources, execState, execRequest, exceptExec>>

NextFrame == WhereGroups \/ SortGroups \/ GroupGroups \/ PageGroups \/ SelectParent

SpecFrame == InitFrame /\ [][NextFrame]_vars

\* the state without the entry of a key
Without(state, k) == VDict([j \in Keys(state) \ {k} |-> state.d[j]])

\* the sub-state of the groups in a state, empty when the state has none
GroupsState(state) ==
    LET entry == EntryOf(DictGet(state, TAKE_FEATURE, VNone), [name |-> Key("groups")])
    IN  IF IsDict(entry) THEN entry ELSE EmptyDict

\* C25: a where, sort, page or group added at the level of the groups is
\* stored in the state of that level, under take.groups; every other key of
\* that level, of the level above and of its take is as it was; and
\* select_fields gives for the level above the fields it gave before the
\* update.
C25_ParentSelection ==
    (lastCall.op \in {"where", "sort", "page", "group"} /\ lastCall.level = Key("groups")) =>
        LET before == lastCall.before
            after == StateOf(lastCall.returned)
        IN  /\ Has(GroupsState(after), lastCall.key)
            /\ Without(GroupsState(after), lastCall.key) = Without(GroupsState(before), lastCall.key)
            /\ Without(after, TAKE_FEATURE) = Without(before, TAKE_FEATURE)
            /\ Without(DictGet(after, TAKE_FEATURE, EmptyDict), Key("groups"))
                 = Without(DictGet(before, TAKE_FEATURE, EmptyDict), Key("groups"))
            /\ outcome.op = "select_fields" =>
                 outcome.result = select_fields(resources[Key("users")], Key("get"), <<>>,
                                                before, execRequest)

(***************************************************************************)
(* SpecDispatch: a querystring that may name a method, compiled for an     *)
(* executor, and the query executed                                        *)
(***************************************************************************)
\* the methods a client can name: those of the executor, its attributes,
\* and the actions of a Query
MethodNames ==
    ExecutorMethods \cup DOMAIN ExecutorAttributes
        \cup {<<"add">>, <<"delete">>, <<"options">>}

\* the keys a request has besides its method
OtherKeys == { <<>>, <<TakeItem(<<>>, << <<"id">>, <<"name">> >>)>>, <<PageSizeItem(<<"1", "0">>, 10)>> }

InitDispatch ==
    /\ \E others \in OtherKeys :
         \/ querystring = Render(others)
         \/ \E name \in MethodNames :
              \/ querystring = Render(others \o <<MethodItem(name)>>)
              \/ querystring = Render(<<MethodItem(name)>> \o others)
    /\ selection = <<>>
    /\ compiled = Pending
    /\ calls = <<>>
    /\ built = EmptyDict
    /\ IdleExceptQuery

\* Query.from_querystring(querystring, executor=executor)
CompileFor ==
    /\ compiled = Pending
    /\ compiled' = from_querystring(querystring)
    /\ IsDict(compiled')
    /\ cells' = <<compiled'>>
    /\ queries' = << [state |-> 1, executor |-> "bound"] >>
    /\ UNCHANGED <<selection, querystring, calls, built, lastCall, ncalls,
                   exprVars, cursorVars, execVars>>

NextDispatch == CompileFor \/ QueryExecute

SpecDispatch == InitDispatch /\ [][NextDispatch]_vars

\* the actions of a Query: add, set, get, edit, delete, options
ActionMethods == {<<"add">>, <<"set">>, <<"get">>, <<"edit">>, <<"delete">>, <<"options">>}

\* C27: Query.execute, on a query compiled from a querystring, calls on the
\* executor nothing but an action; when the method the state names is
\* another attribute of the executor, execute raises QueryValidationError
\* and the attribute is not called.
C27_ActionsOnly ==
    lastCall.op = "execute" =>
        /\ lastCall.returned.t = "invoked" => lastCall.returned.method \in ActionMethods
        /\ MethodOf(lastCall.before) \in (ExecutorMethods \cup DOMAIN ExecutorAttributes)
                                          \ ActionMethods
             => lastCall.returned = Err("QueryValidationError")
====
